---- MODULE Spec2Model ----
(***************************************************************************)
(* A model of the Opera Web UI Toolkit reconciliation engine               *)
(* (src/unnamed/part_006): the keyed reconciler, the diff engine, the      *)
(* patch / apply protocol and the lifecycle notifications.                 *)
(*                                                                         *)
(* JavaScript arrays are 0-based; the sequences below are 1-based.  Every  *)
(* index stored in a record (at, from, to, index) is the 0-based one the   *)
(* code uses, and the helpers convert when they touch a sequence.          *)
(***************************************************************************)
EXTENDS Integers, Sequences, FiniteSets, TLC

VARIABLES
    source,         \* Reconciler.calculateMoves: the source key sequence
    target,         \* Reconciler.calculateMoves: the target key sequence
    favoredToMove,  \* Reconciler.calculateMoves: the favoured key, or NoKey
    engine,         \* the Array.prototype.sort implementation of the host
    moves,          \* the value returned by calculateMoves (list and result)
    called,         \* whether calculateMoves has returned
    state,          \* root.state
    heap,           \* the virtual nodes, by id; the root is node 1
    containerNodes, \* the DOM child nodes of the container of the root
    stack,          \* the dispatches in progress, the innermost last
    reentered,      \* whether a hook has dispatched a command
    crashed,        \* whether an exception has left a dispatch
    ready,          \* root.ready and the Toolkit.render call waiting for it
    origin,         \* what the root had before a round trip or a direct call
    hops,           \* the commands or direct calls made since init
    templateArg,    \* Template.describe: the template it is called with
    describeResult, \* Template.describe: what the call has come to
    clock,          \* Date.now()
    throttled,      \* throttle: the closure of the throttled function
    timers,         \* setTimeout: the tasks waiting, with the time they are due
    throttledCalls, \* the times the throttled function was called at
    timestamps,     \* the invocations of fn
    pureComponentClassRegistry, \* render function -> PureComponent class
    resolutions,    \* the classes resolveComponentClass has returned
    loader,         \* the Loader: registry, loadPromises, ready
    preloads,       \* the calls of Loader.preload in flight
    scripts,        \* the script files: what each exports and declares
    plugins,        \* a root's Plugins: registry, its cache, uninstalls
    notified,       \* the plugins notified and the uninstall functions run
    dispatch,       \* root.dispatch: the function of the constructor, or null
    roots,          \* Toolkit.roots: the roots the originator tracks
    initPc,         \* Root.init: the await it has reached
    invocations     \* the calls of an entry of root.commands

recVars == <<source, target, favoredToMove, moves, called>>

treeVars == <<state, heap, containerNodes, stack, reentered, crashed, ready>>

tripVars == <<origin, hops>>

templateVars == <<templateArg, describeResult>>
throttleVars == <<clock, throttled, timers, throttledCalls, timestamps>>
resolverVars == <<pureComponentClassRegistry, resolutions>>
loaderVars == <<loader, preloads, scripts>>
pluginVars == <<plugins, notified>>
lifeVars == <<dispatch, roots, initPc, invocations>>
utilVars ==
    <<templateVars, throttleVars, resolverVars, loaderVars, pluginVars,
      lifeVars>>

vars == <<source, target, favoredToMove, engine, moves, called, state, heap,
          containerNodes, stack, reentered, crashed, ready, origin, hops,
          utilVars>>

(***************************************************************************)
(* Bounds of the model.                                                    *)
(***************************************************************************)
MaxLen == 3        \* longest key sequence handed to the reconciler
NumStrKeys == 3    \* distinct string keys ("a", "b", ...)

(***************************************************************************)
(* Keys.  A key is a string or a number.  Numeric keys are the naturals    *)
(* below StrBase; the string keys "a", "b", ... are encoded StrBase,       *)
(* StrBase + 1, ... so that their order is the order of the strings.       *)
(***************************************************************************)
StrBase == 100
NoKey == 0 - 1

\* The numeric keys handed to the reconciler on its own: the index 0.
IntKeys == {0}
StrKeys == { StrBase + i : i \in 0 .. (NumStrKeys - 1) }
AllKeys == IntKeys \cup StrKeys

IsStr(k) == k >= StrBase

\* JavaScript truthiness of a key: 0 is falsy, every other key used here
\* (positive numbers, non-empty strings) is truthy; an absent key is falsy.
Truthy(k) == k # NoKey /\ k # 0

\* JavaScript `a > b` on keys: two numbers compare numerically, two strings
\* lexicographically; a number against a non-numeric string compares with
\* NaN and is false either way round.
JsGreater(a, b) == IF IsStr(a) = IsStr(b) THEN a > b ELSE FALSE

NoMoves == [list |-> <<>>, result |-> <<>>]

Range(s) == { s[i] : i \in 1 .. Len(s) }

IsDupFree(s) == \A i, j \in 1 .. Len(s) : i # j => s[i] # s[j]

DupFreeSeqs(S, n) ==
    UNION { { s \in [1 .. m -> S] : IsDupFree(s) } : m \in 0 .. n }

(***************************************************************************)
(* Array helpers (Array.prototype.splice, indexOf, reverse).               *)
(***************************************************************************)
Min(a, b) == IF a < b THEN a ELSE b
Max(a, b) == IF a > b THEN a ELSE b

\* items.splice(at, 0, item): an index past the end is clamped to the length,
\* a negative one counts from the end.
SpliceInsert(items, at, item) ==
    LET n == Len(items)
        p == IF at < 0 THEN Max(n + at, 0) ELSE Min(at, n)
    IN  SubSeq(items, 1, p) \o <<item>> \o SubSeq(items, p + 1, n)

\* items.splice(at, 1): nothing is removed at an index past the end, and a
\* negative index counts from the end.
SpliceRemove(items, at) ==
    LET n == Len(items)
        p == IF at < 0 THEN Max(n + at, 0) ELSE Min(at, n)
    IN  IF p >= n THEN items
        ELSE SubSeq(items, 1, p) \o SubSeq(items, p + 2, n)

\* items.indexOf(item): the first 0-based index holding item, or -1.
IndexOf(items, item) ==
    IF \E i \in 1 .. Len(items) : items[i] = item
    THEN (CHOOSE i \in 1 .. Len(items) :
              items[i] = item /\ \A j \in 1 .. (i - 1) : items[j] # item) - 1
    ELSE 0 - 1

\* A variant of reverse that leaves the order as it is.
Unreversed(s) == s

Reverse(s) == [i \in 1 .. Len(s) |-> s[Len(s) + 1 - i]]

(***************************************************************************)
(* Move (src/unnamed/part_006, 2808-2843).                                 *)
(***************************************************************************)
MoveInsert(item, at) ==
    [name |-> "insert", item |-> item, at |-> at, from |-> NoKey, to |-> NoKey]

\* A variant of Move.move that lands one position late.
MoveMoveOneLate(item, from, to) ==
    [name |-> "move", item |-> item, at |-> NoKey, from |-> from, to |-> to + 1]

MoveMove(item, from, to) ==
    [name |-> "move", item |-> item, at |-> NoKey, from |-> from, to |-> to]

MoveRemove(item, at) ==
    [name |-> "remove", item |-> item, at |-> at, from |-> NoKey, to |-> NoKey]

\* move.make(items)
Make(move, items) ==
    CASE move.name = "insert" -> SpliceInsert(items, move.at, move.item)
      [] move.name = "move" ->
            SpliceInsert(SpliceRemove(items, move.from), move.to, move.item)
      [] move.name = "remove" -> SpliceRemove(items, move.at)

(***************************************************************************)
(* Reconciler (src/unnamed/part_006, 2845-2955).                           *)
(***************************************************************************)
CreateItem(key, index) == [key |-> key, index |-> index]

\* source.map(createItem): the index is the 0-based position.
CreateItems(keys) == [i \in 1 .. Len(keys) |-> CreateItem(keys[i], i - 1)]

\* Reconciler.comparator
comparator(a, b) ==
    IF a.key = b.key THEN 0
    ELSE IF JsGreater(a.key, b.key) THEN 1 ELSE 0 - 1

(***************************************************************************)
(* Array.prototype.sort(comparator).  The comparator is not a total order  *)
(* on mixed numeric and string keys, and the order sort() then produces is *)
(* left to the host.  Two hosts are modelled: the linear insertion sort of *)
(* V8 before 7.0 (arrays of at most 10 elements) and the run detection     *)
(* followed by binary insertion of V8's TimSort (arrays below 32).         *)
(***************************************************************************)
Engines == {"insertion", "timsort"}

InsertAfter(a, n, e) == SubSeq(a, 1, n) \o <<e>> \o SubSeq(a, n + 1, Len(a))

\* The number of leading elements of a[1..j] that stay before `element`:
\* scan from the right while comparefn(a[j], element) > 0.
RECURSIVE LinearSlot(_, _, _)
LinearSlot(a, element, j) ==
    IF j = 0 THEN 0
    ELSE IF comparator(a[j], element) > 0 THEN LinearSlot(a, element, j - 1)
    ELSE j

RECURSIVE InsertionSortFrom(_, _)
InsertionSortFrom(a, i) ==
    IF i > Len(a) THEN a
    ELSE LET prefix == SubSeq(a, 1, i - 1)
             slot == LinearSlot(prefix, a[i], i - 1)
         IN  InsertionSortFrom(
                 InsertAfter(prefix, slot, a[i]) \o SubSeq(a, i + 1, Len(a)),
                 i + 1)

\* CountAndMakeRun: the length of the initial run, strictly descending when
\* comparefn(a[1], a[0]) < 0 and ascending otherwise.
RECURSIVE RunLength(_, _, _)
RunLength(a, idx, descending) ==
    IF idx > Len(a) THEN idx - 1
    ELSE LET order == comparator(a[idx], a[idx - 1])
         IN  IF descending
             THEN IF order >= 0 THEN idx - 1
                  ELSE RunLength(a, idx + 1, descending)
             ELSE IF order < 0 THEN idx - 1
                  ELSE RunLength(a, idx + 1, descending)

\* The binary search of BinaryInsertionSort over a[left+1 .. right].
RECURSIVE BinarySlot(_, _, _, _)
BinarySlot(a, pivot, left, right) ==
    IF left >= right THEN left
    ELSE LET mid == left + ((right - left) \div 2)
         IN  IF comparator(pivot, a[mid + 1]) < 0
             THEN BinarySlot(a, pivot, left, mid)
             ELSE BinarySlot(a, pivot, mid + 1, right)

RECURSIVE BinaryInsertionFrom(_, _)
BinaryInsertionFrom(a, start) ==
    IF start > Len(a) THEN a
    ELSE LET prefix == SubSeq(a, 1, start - 1)
             slot == BinarySlot(prefix, a[start], 0, start - 1)
         IN  BinaryInsertionFrom(
                 InsertAfter(prefix, slot, a[start])
                     \o SubSeq(a, start + 1, Len(a)),
                 start + 1)

TimSort(a) ==
    IF Len(a) < 2 THEN a
    ELSE LET descending == comparator(a[2], a[1]) < 0
             run == RunLength(a, 3, descending)
             made == IF descending
                     THEN Reverse(SubSeq(a, 1, run)) \o SubSeq(a, run + 1, Len(a))
                     ELSE a
         IN  BinaryInsertionFrom(made, run + 1)

\* items.sort(this.comparator) on the host `eng`.
SortItems(a, eng) ==
    IF eng = "insertion" THEN InsertionSortFrom(a, 2) ELSE TimSort(a)

\* The merge walk of calculateMoves over the two sorted item lists: the
\* items only in `before` (removed) and only in `after` (inserted).
RECURSIVE MergeWalk(_, _, _, _)
MergeWalk(before, after, removed, inserted) ==
    IF Len(before) = 0 /\ Len(after) = 0
    THEN [removed |-> removed, inserted |-> inserted]
    ELSE IF Len(before) = 0
    THEN [removed |-> removed, inserted |-> inserted \o after]
    ELSE IF Len(after) = 0
    THEN [removed |-> removed \o before, inserted |-> inserted]
    ELSE LET result == comparator(Head(after), Head(before))
         IN  IF result = 0
             THEN MergeWalk(Tail(before), Tail(after), removed, inserted)
             ELSE IF result = 1
             THEN MergeWalk(Tail(before), after,
                            Append(removed, Head(before)), inserted)
             ELSE MergeWalk(before, Tail(after),
                            removed, Append(inserted, Head(after)))

\* items.sort(sortByIndex): the indices of the items of one list are
\* pairwise different, so every sort gives the ascending order.
\* A variant that leaves the items in the order of their keys.
SortByKeyOnly(items) == items

RECURSIVE SortByIndex(_)
SortByIndex(items) ==
    IF Len(items) = 0 THEN <<>>
    ELSE LET m == CHOOSE i \in 1 .. Len(items) :
                      \A j \in 1 .. Len(items) : items[i].index <= items[j].index
         IN  <<items[m]>>
                 \o SortByIndex(SubSeq(items, 1, m - 1)
                                    \o SubSeq(items, m + 1, Len(items)))

\* The two loops that make the removals and then the insertions on `result`.
RECURSIVE MakeAll(_, _)
MakeAll(ms, items) ==
    IF Len(ms) = 0 THEN items ELSE MakeAll(Tail(ms), Make(Head(ms), items))

RemoveMoves(removed) ==
    [i \in 1 .. Len(removed) |-> MoveRemove(removed[i].key, removed[i].index)]

InsertMoves(inserted) ==
    [i \in 1 .. Len(inserted) |-> MoveInsert(inserted[i].key, inserted[i].index)]

\* moveItemIfNeeded(index) for the indices still to visit; `acc` holds the
\* working list (src) and the moves made so far.
RECURSIVE IndexChangesFrom(_, _, _, _)
IndexChangesFrom(acc, tgt, i, reversed) ==
    IF (reversed /\ i < 0) \/ (~reversed /\ i >= Len(tgt)) THEN acc
    ELSE LET item == tgt[i + 1]
             same == i < Len(acc.result) /\ acc.result[i + 1] = item
             from == IndexOf(acc.result, item)
             move == MoveMove(item, from, i)
             next == IF same THEN acc
                     ELSE [list |-> Append(acc.list, move),
                           result |-> Make(move, acc.result)]
         IN  IndexChangesFrom(next, tgt, IF reversed THEN i - 1 ELSE i + 1,
                              reversed)

calculateIndexChanges(src, tgt, reversed) ==
    IndexChangesFrom([list |-> <<>>, result |-> src], tgt,
                     IF reversed THEN Len(tgt) - 1 ELSE 0, reversed)

\* A variant of the choice that ignores the favoured key.
UseAlternativeIgnoringFavored(defaultMoves, alternativeMoves, favored) ==
    /\ Len(defaultMoves.list) > 1
    /\ Len(alternativeMoves.list) <= Len(defaultMoves.list)

\* The choice between the forward and the reversed list of moves.
UseAlternative(defaultMoves, alternativeMoves, favored) ==
    /\ \/ Len(defaultMoves.list) > 1
       \/ /\ Truthy(favored)
          /\ Len(defaultMoves.list) = 1
          /\ defaultMoves.list[1].item # favored
    /\ Len(alternativeMoves.list) <= Len(defaultMoves.list)

\* Reconciler.calculateMoves(source, target, favoredToMove) on host `eng`:
\* the list of moves and moves.result.
calculateMoves(src, tgt, favored, eng) ==
    LET Chosen(setMoves, result, defaultMoves, alternativeMoves) ==
            IF result = tgt
            THEN [list |-> setMoves, result |-> result]
            ELSE IF UseAlternative(defaultMoves, alternativeMoves, favored)
            THEN [list |-> setMoves \o alternativeMoves.list,
                  result |-> alternativeMoves.result]
            ELSE [list |-> setMoves \o defaultMoves.list,
                  result |-> defaultMoves.result]
        Indexed(setMoves, result) ==
            Chosen(setMoves, result,
                   calculateIndexChanges(result, tgt, FALSE),
                   calculateIndexChanges(result, tgt, TRUE))
        Set(setMoves) == Indexed(setMoves, MakeAll(setMoves, src))
        Walked(walk) ==
            Set(RemoveMoves(Reverse(SortByIndex(walk.removed)))
                    \o InsertMoves(SortByIndex(walk.inserted)))
    IN  Walked(MergeWalk(SortItems(CreateItems(src), eng),
                         SortItems(CreateItems(tgt), eng), <<>>, <<>>))

(***************************************************************************)
(* Descriptions (src/unnamed/part_006, 2461-2589).  A map-valued field     *)
(* (style, attrs, ...) is a function from its keys; an undefined field is  *)
(* the empty function, undefined text is NoText, an undefined class is "". *)
(***************************************************************************)
NoText == "<undefined>"
NoProps == <<>>
NoMap == <<>>

NullDescription == [type |-> "null"]

ElementDescription(name) ==
    [type |-> "element", name |-> name, component |-> "", key |-> NoKey,
     class |-> "", style |-> NoMap, attrs |-> NoMap, listeners |-> NoMap,
     dataset |-> NoMap, properties |-> NoMap, customAttrs |-> NoMap,
     customListeners |-> NoMap, text |-> NoText, props |-> NoProps,
     children |-> <<>>]

ComponentDescription(component) ==
    [type |-> "component", name |-> "", component |-> component, key |-> NoKey,
     class |-> "", style |-> NoMap, attrs |-> NoMap, listeners |-> NoMap,
     dataset |-> NoMap, properties |-> NoMap, customAttrs |-> NoMap,
     customListeners |-> NoMap, text |-> NoText, props |-> NoProps,
     children |-> <<>>]

IsNull(description) == description.type = "null"

\* Description.isCompatible, ComponentDescription.isCompatible and
\* ElementDescription.isCompatible.
IsCompatible(a, b) ==
    /\ a.type = b.type
    /\ IF a.type = "component" THEN a.component = b.component
       ELSE a.name = b.name

\* Object.keys(map) in the order the application writes the keys.
KeyOrder ==
    <<"color", "width", "title", "tabIndex", "onClick", "onDoubleClick",
      "id", "kind", "value", "checked", "x-a", "x-b", "my-event", "my-other">>

Keys(map) == SelectSeq(KeyOrder, LAMBDA k : k \in DOMAIN map)

\* Diff.deepEqual on two maps of primitive values or of listeners: the same
\* keys, and Object.is on every value (a listener equals only itself).
MapEqual(a, b) ==
    /\ DOMAIN a = DOMAIN b
    /\ \A k \in DOMAIN a : a[k] = b[k]

\* Diff.deepEqual on two descriptions or nulls.
deepEqualNever(a, b) == FALSE

RECURSIVE deepEqual(_, _)
deepEqual(a, b) ==
    IF IsNull(a) \/ IsNull(b) THEN IsNull(a) /\ IsNull(b)
    ELSE /\ a.type = b.type
         /\ a.name = b.name
         /\ a.component = b.component
         /\ a.key = b.key
         /\ a.class = b.class
         /\ a.text = b.text
         /\ MapEqual(a.style, b.style)
         /\ MapEqual(a.attrs, b.attrs)
         /\ MapEqual(a.listeners, b.listeners)
         /\ MapEqual(a.dataset, b.dataset)
         /\ MapEqual(a.properties, b.properties)
         /\ MapEqual(a.customAttrs, b.customAttrs)
         /\ MapEqual(a.customListeners, b.customListeners)
         /\ a.props = b.props
         /\ Len(a.children) = Len(b.children)
         /\ \A i \in 1 .. Len(a.children) :
               deepEqual(a.children[i], b.children[i])

(***************************************************************************)
(* Templates and Template.describe (src/unnamed/part_006, 3217-3420).      *)
(* A template is null, an element template (name, props, text or nodes) or *)
(* a component template (class, props).                                    *)
(***************************************************************************)
NullTemplate == [head |-> "null"]

NoElementProps ==
    [key |-> NoKey, class |-> "", style |-> NoMap, dataset |-> NoMap,
     properties |-> NoMap, attrs |-> NoMap, on |-> NoMap,
     attributes |-> NoMap, events |-> NoMap]

ElementTemplate(name, props, text, nodes) ==
    [head |-> "element", name |-> name, props |-> props, text |-> text,
     nodes |-> nodes]

ComponentTemplate(component, props) ==
    [head |-> "component", component |-> component, props |-> props]

SupportedAttributes == {"title", "tabIndex", "href", "id"}

SupportedEvents == {"onClick", "onDoubleClick", "onChange"}

Restrict(map, S) == [k \in (DOMAIN map) \cap S |-> map[k]]

\* The key a component description takes from its props: `if (props.key)`.
\* Only the props of a Row and of a Group hold a key.
ComponentKey(component, props) ==
    IF component \in {"Row", "Group"} /\ Truthy(props.key) THEN props.key
    ELSE NoKey

\* Template.assignPropsToElement: the key is kept when defined, the
\* top-level props are routed by the two allow-lists.
assignPropsToElement(props, description) ==
    [description EXCEPT
        !.key = props.key,
        !.class = props.class,
        !.style = props.style,
        !.dataset = props.dataset,
        !.properties = props.properties,
        !.customAttrs = props.attrs,
        !.customListeners = props.on,
        !.attrs = Restrict(props.attributes, SupportedAttributes),
        !.listeners = Restrict(props.events, SupportedEvents)]

RECURSIVE describe(_)
describe(template) ==
    IF template.head = "null" THEN NullDescription
    ELSE IF template.head = "component"
    THEN [ComponentDescription(template.component) EXCEPT
              !.props = template.props,
              !.key = ComponentKey(template.component, template.props)]
    ELSE LET described ==
                 [i \in 1 .. Len(template.nodes) |-> describe(template.nodes[i])]
             base == assignPropsToElement(template.props,
                                          ElementDescription(template.name))
         IN  [base EXCEPT
                 !.text = template.text,
                 !.children = SelectSeq(described, LAMBDA d : ~IsNull(d))]

(***************************************************************************)
(* Template.describe on templates as the application writes them           *)
(* (src/unnamed/part_006, 3222-3312): a template is any value, and an      *)
(* array of items when it is well formed.  A value is a record with the    *)
(* type Template.getItemType gives it (3410-3434), the text that stands    *)
(* for it, and the props or the items it holds.                            *)
(***************************************************************************)
Value(type, value) ==
    [type |-> type, value |-> value, props |-> NoProps, items |-> <<>>]

Props(props) ==
    [type |-> "props", value |-> "", props |-> props, items |-> <<>>]

Node(items) ==
    [type |-> "node", value |-> "", props |-> NoProps, items |-> items]

NullValue == Value("null", "null")
FalseValue == Value("boolean", "false")
TrueValue == Value("boolean", "true")
UndefinedValue == Value("undefined", "undefined")

\* isFalsy: null or false.
isFalsy(item) == item = NullValue \/ item = FalseValue

\* String(item) of a string, a number or true.
StringOf(item) ==
    CASE item.type = "string" -> item.value
      [] item.type = "number" -> item.value
      [] OTHER -> "true"

\* What a call of Template.describe comes to: the description it returns
\* (null for a falsy template), or the error it throws.
Gives(description) ==
    [done |-> TRUE, thrown |-> FALSE, error |-> "",
     description |-> description]

Thrown(error) ==
    [done |-> TRUE, thrown |-> TRUE, error |-> error,
     description |-> NullDescription]

NotDescribed ==
    [done |-> FALSE, thrown |-> FALSE, error |-> "",
     description |-> NullDescription]

\* A variant that lets a node follow text.
HasTextNever(description) == FALSE

\* typeof description.text === 'string'
HasText(description) == description.text # NoText

\* description.children: the array exists once a node was pushed.
HasChildren(description) == Len(description.children) > 0

\* The first item of the template.
DescribeHead(item) ==
    CASE item.type = "string" -> Gives(ElementDescription(item.value))
      [] item.type \in {"component", "function", "symbol"} ->
             Gives(ComponentDescription(item.value))
      [] OTHER -> Thrown("Invalid node type specified")

\* The props at index 1: those of a component are kept when they are not
\* empty, with their key when it is truthy; those of an element are
\* assigned by category.
DescribeProps(props, description) ==
    IF description.type = "component"
    THEN IF DOMAIN props = {} THEN description
         ELSE [description EXCEPT
                  !.props = props,
                  !.key = IF "key" \in DOMAIN props /\ Truthy(props.key)
                          THEN props.key ELSE @]
    ELSE [description EXCEPT
             !.key = IF "key" \in DOMAIN props THEN props.key ELSE @,
             !.class = IF "class" \in DOMAIN props THEN props.class ELSE @]

RECURSIVE TemplateDescribe(_)
RECURSIVE DescribeItems(_, _, _)

\* The loop over the items from index `index` (0-based) on.
DescribeItems(items, index, description) ==
    IF index >= Len(items) THEN Gives(description)
    ELSE LET item == items[index + 1]
             Pushed(child) ==
                 IF child.thrown THEN child
                 ELSE DescribeItems(items, index + 1,
                          [description EXCEPT
                              !.children = Append(@, child.description)])
         IN  IF index = 1 /\ item.type = "props"
             THEN DescribeItems(items, index + 1,
                                DescribeProps(item.props, description))
             ELSE IF isFalsy(item)
             THEN DescribeItems(items, index + 1, description)
             ELSE IF item.type \in {"string", "number"} \/ item = TrueValue
             THEN IF description.type = "component"
                  THEN Thrown("Components cannot define text content")
                  ELSE IF HasChildren(description)
                  THEN Thrown("Elements with child nodes cannot define text content")
                  ELSE DescribeItems(items, index + 1,
                           [description EXCEPT !.text = StringOf(item)])
             ELSE IF item.type = "node"
             THEN IF HasText(description)
                  THEN Thrown("Text elements cannot have child nodes!")
                  ELSE Pushed(TemplateDescribe(item))
             ELSE Thrown("Invalid item specified")

\* Template.describe
TemplateDescribe(template) ==
    IF isFalsy(template) THEN Gives(NullDescription)
    ELSE IF template.type = "node" /\ Len(template.items) > 0
    THEN LET Headed(head) ==
                 IF head.thrown THEN head
                 ELSE DescribeItems(template.items, 1, head.description)
         IN  Headed(DescribeHead(template.items[1]))
    ELSE Thrown("Expecting array, null or false")

(***************************************************************************)
(* opr.Toolkit.utils.throttle (src/unnamed/part_006, 3771-3805).  Time is  *)
(* Date.now(), in milliseconds; a task given to setTimeout runs when its   *)
(* delay has passed or later, never before.                                *)
(***************************************************************************)
NoTask == 0        \* taskId = null
NoParams == 0      \* params before the first call that stores them

\* The closure throttle(fn, wait, delayFirstEvent) returns.
Throttle(wait, delayFirstEvent) ==
    [wait |-> wait, delayFirstEvent |-> delayFirstEvent,
     lastTimestamp |-> 0, taskId |-> NoTask, params |-> NoParams]

NoThrottle == Throttle(0, FALSE)

\* A variant that takes a call just before the wait is over.
IsElapsedStrictly(elapsed, wait) == elapsed > wait

\* elapsed >= wait
IsElapsed(elapsed, wait) == elapsed >= wait

\* A variant that runs the task as soon as it can.
TaskDelayNone(wait, elapsed) == 0

\* scheduleTask(wait - elapsed)
TaskDelay(wait, elapsed) == wait - elapsed

\* A variant that never delays the first event.
InvokesAtOnceAlways(delayFirstEvent) == TRUE

\* if (!delayFirstEvent) return fn.call(this, ...args)
InvokesAtOnce(delayFirstEvent) == ~delayFirstEvent

\* An invocation of fn: when, whether inside a call of the throttled
\* function, and with the arguments of which call.
Invocation(at, sync, params) == [at |-> at, sync |-> sync, params |-> params]

\* setTimeout(task, delay) at time `now`: the id of the task.
NewTaskId(tasks) == Cardinality(tasks) + 1

SetTimeout(tasks, now, delay) ==
    tasks \cup {[id |-> NewTaskId(tasks), due |-> now + delay]}

\* The closure after scheduleTask(delay) and the assignment of params.
Scheduled(closure, tasks, args) ==
    [closure EXCEPT !.taskId = NewTaskId(tasks), !.params = args]
(***************************************************************************)
(* The application rendered by the toolkit: a root component whose state   *)
(* selects a shell (nothing, a bare Row, a hidden Row or a section), the   *)
(* look of the section (one map that fills every property                  *)
(* category) and the rows of the section.  A row is a keyed or unkeyed     *)
(* element, or a Row component that renders an element or, hidden, null.   *)
(***************************************************************************)
MaxRows == 2       \* longest list of rows of the section

KeyA == StrBase
KeyB == StrBase + 1
KeyC == StrBase + 2
KeyD == StrBase + 3

Item(key, kind) == [key |-> key, kind |-> kind]

KindsOf(key) ==
    IF key = KeyA THEN {"div", "Row", "Ghost"}
    ELSE IF key = KeyB THEN {"div", "divY"}
    ELSE {"span"}

Items == UNION { { Item(k, kind) : kind \in KindsOf(k) } : k \in {KeyA, KeyB, NoKey} }

HasUniqueKeys(rows) ==
    \A i, j \in 1 .. Len(rows) :
        (i # j /\ rows[i].key # NoKey) => rows[i].key # rows[j].key

RowLists ==
    UNION { { rows \in [1 .. n -> Items] : HasUniqueKeys(rows) } : n \in 0 .. MaxRows }

\* A look assigns a value to some of two slots: one of three values to the
\* first slot, the first value to the second.  The third value is the first
\* one rendered again: it differs from it only in the listeners, which are
\* then other functions.
Looks ==
    { look \in UNION { [D -> {1, 2, 3}] : D \in SUBSET {1, 2} } :
          2 \in DOMAIN look => look[2] = 1 }

NoLook == <<>>

AppState(shell, look, rows) == [shell |-> shell, look |-> look, rows |-> rows]

AppStates ==
    { AppState("section", NoLook, rows) : rows \in RowLists }
        \cup { AppState("section", look, <<>>) : look \in Looks }
        \cup { AppState(shell, NoLook, <<>>) :
                   shell \in {"none", "row", "ghost"} }

\* root.state before the init command.
NullState == [null |-> TRUE]

\* createBoundListener: the function id that wraps the method `method` of
\* the component.  A function that is no wrapper has no source ("").
Listener(method, id) == [source |-> method, id |-> id]

\* The map of one property category under a look: slot i is written under
\* names[i] with the value values[look[i]].
Named(look, names, values) ==
    [k \in { names[i] : i \in DOMAIN look } |->
        values[look[CHOOSE i \in DOMAIN look : names[i] = k]]]

LookProps(look) ==
    [key |-> NoKey,
     class |-> IF 1 \in DOMAIN look THEN <<"plain", "fancy", "plain">>[look[1]] ELSE "",
     style |-> Named(look, <<"color", "width">>, <<"red", "blue", "red">>),
     dataset |-> Named(look, <<"id", "kind">>, <<"one", "two", "one">>),
     properties |-> Named(look, <<"value", "checked">>, <<"on", "off", "on">>),
     attrs |-> Named(look, <<"x-a", "x-b">>, <<"p", "q", "p">>),
     on |-> Named(look, <<"my-event", "my-other">>,
                  <<Listener("", 3), Listener("", 4), Listener("", 6)>>),
     attributes |-> Named(look, <<"title", "tabIndex">>, <<"first", "second", "first">>),
     events |-> Named(look, <<"onClick", "onDoubleClick">>,
                      <<Listener("select", 1), Listener("open", 2),
                        Listener("select", 5)>>)]

LookText(look) ==
    IF 2 \in DOMAIN look THEN <<"hello", "world">>[look[2]] ELSE NoText

RowProps(key, hidden, beingDragged) ==
    [key |-> key, label |-> "row", hidden |-> hidden,
     beingDragged |-> beingDragged]

Keyed(key) == [NoElementProps EXCEPT !.key = key]

\* The props of a Group, a component that renders components, and of the
\* Board it holds, a root class with a custom element.
GroupProps(key, folded) == [key |-> key, folded |-> folded]

BoardProps == [label |-> "board"]

\* The template of one row of the section.
RowTemplate(item) ==
    CASE item.kind = "div" -> ElementTemplate("div", Keyed(item.key), "x", <<>>)
      [] item.kind = "divY" -> ElementTemplate("div", Keyed(item.key), "y", <<>>)
      [] item.kind = "span" -> ElementTemplate("span", Keyed(item.key), "x", <<>>)
      [] item.kind = "Row" ->
            ComponentTemplate("Row", RowProps(item.key, FALSE, item.key # NoKey))
      [] item.kind = "Ghost" ->
            ComponentTemplate("Row", RowProps(item.key, TRUE, FALSE))
      [] item.kind = "Group" ->
            ComponentTemplate("Group", GroupProps(item.key, FALSE))
      [] item.kind = "Fold" ->
            ComponentTemplate("Group", GroupProps(item.key, TRUE))

\* The states with a panel: a look names the label of the panel, the rows
\* fill the list beside it.  Sibling keys may repeat here.
PanelRows ==
    UNION { [1 .. n -> { Item(KeyA, "div"), Item(KeyB, "div"), Item(KeyB, "divY") }] :
                n \in 0 .. MaxRows }

PanelStates ==
    { AppState("panel", look, rows) :
          look \in [{1} -> {1, 2}], rows \in PanelRows }

PanelProps(look) == [label |-> <<"one", "two">>[look[1]]]

\* ComponentClass.prototype instanceof opr.Toolkit.Root, and the classes
\* that declare a custom element name.
IsRootClass(component) == component \in {"Root", "Panel", "Board"}

HasElementName(component) == component \in {"Panel", "Board"}

\* opr.Toolkit.isDebug(): the toolkit is configured with `debug: true`.
isDebug == TRUE

\* render() of the component classes: Row, the root class Panel that is
\* rendered in its custom element, Group, which renders a Row or, unfolded,
\* an element with a Row and a Board, the root class Board, which renders
\* a Row, and the class of the mounted root, which renders nothing when
\* its props name no shell.
Render(component, props) ==
    IF component = "Row"
    THEN IF props.hidden THEN NullTemplate
         ELSE ElementTemplate("li", NoElementProps, props.label, <<>>)
    ELSE IF component = "Panel"
    THEN ElementTemplate("p", NoElementProps, props.label, <<>>)
    ELSE IF component = "Group"
    THEN IF props.folded
         THEN ComponentTemplate("Row", RowProps(NoKey, FALSE, FALSE))
         ELSE ElementTemplate("div", NoElementProps, NoText,
                  <<ComponentTemplate("Row", RowProps(NoKey, FALSE, FALSE)),
                    ComponentTemplate("Board", BoardProps)>>)
    ELSE IF component = "Board"
    THEN ComponentTemplate("Row", RowProps(NoKey, FALSE, FALSE))
    ELSE IF "shell" \notin DOMAIN props THEN NullTemplate
    ELSE CASE props.shell = "none" -> NullTemplate
           [] props.shell = "panel" ->
                 ElementTemplate("section", NoElementProps, NoText,
                     <<ComponentTemplate("Panel", PanelProps(props.look)),
                       ElementTemplate("ul", NoElementProps, NoText,
                           [i \in 1 .. Len(props.rows) |->
                               RowTemplate(props.rows[i])])>>)
           [] props.shell = "row" ->
                 ComponentTemplate("Row", RowProps(NoKey, FALSE, FALSE))
           [] props.shell = "ghost" ->
                 ComponentTemplate("Row", RowProps(NoKey, TRUE, FALSE))
           [] props.shell = "section" ->
                 ElementTemplate("section", LookProps(props.look),
                     IF Len(props.rows) = 0 THEN LookText(props.look) ELSE NoText,
                     [i \in 1 .. Len(props.rows) |-> RowTemplate(props.rows[i])])

\* Renderer.render: the description of what the component renders.
RendererRender(component, props) == describe(Render(component, props))

\* component.hasOwnMethod(hook): every class defines every hook.
HasOwnMethod(component, hook) ==
    component \in {"Root", "Row", "Panel", "Group", "Board"}

(***************************************************************************)
(* Virtual nodes (src/unnamed/part_006, 683-1374) and the DOM they drive.  *)
(* The nodes live in a heap, a sequence indexed by node id.  A DOM node is *)
(* named by the virtual node that owns it: the element of element id is    *)
(* id, the placeholder comment of component id is -id, and 0 is no node.   *)
(***************************************************************************)
NoNode == 0
NoRef == 0
NoParent == 0 - 1
ContainerRef == 0

NoDom ==
    [className |-> "", style |-> NoMap, attributes |-> NoMap,
     dataset |-> NoMap, properties |-> NoMap, listeners |-> {},
     textContent |-> "", childNodes |-> <<>>]

VirtualNode(kind, description, key, parentNode) ==
    [kind |-> kind, description |-> description, key |-> key,
     parentNode |-> parentNode, child |-> NoNode, comment |-> FALSE,
     children |-> <<>>, ref |-> NoDom]

\* A root made by VirtualDOM.createRoot for a class with a custom element:
\* described without props, without parent, and holding the props it was
\* made with, no state yet and its custom element, whose slot is empty.
SubRoot(component, props) ==
    [kind |-> "root", description |-> ComponentDescription(component),
     key |-> NoKey, parentNode |-> NoNode, child |-> NoNode, comment |-> TRUE,
     children |-> <<>>, ref |-> NoDom, props |-> props, state |-> NullState]

IsElement(node) == node.kind = "element"
IsRoot(node) == node.kind = "root"
IsComponent(node) == node.kind \in {"component", "root"}

\* Root.ref of a root that has a custom element is that element.
HasCustomElement(node) ==
    IsRoot(node) /\ HasElementName(node.description.component)

Without(s, x) == SelectSeq(s, LAMBDA y : y # x)

MapSet(map, k, v) ==
    [x \in (DOMAIN map) \cup {k} |-> IF x = k THEN v ELSE map[x]]

MapRemove(map, k) == [x \in (DOMAIN map) \ {k} |-> map[x]]

MapMerge(a, b) ==
    [k \in (DOMAIN a) \cup (DOMAIN b) |-> IF k \in DOMAIN b THEN b[k] ELSE a[k]]

\* utils.getAttributeName and utils.getEventName on the names in use.
getAttributeName(name) == IF name = "tabIndex" THEN "tabindex" ELSE name

getEventName(name) ==
    CASE name = "onDoubleClick" -> "dblclick"
      [] name = "onClick" -> "click"
      [] name = "onChange" -> "change"
      [] OTHER -> name

AttributeNames(map) ==
    [d \in { getAttributeName(k) : k \in DOMAIN map } |->
        map[CHOOSE k \in DOMAIN map : getAttributeName(k) = d]]

\* Component.childElement
RECURSIVE childElement(_, _)
childElement(nodes, id) ==
    LET child == nodes[id].child
    IN  IF child = NoNode THEN NoNode
        ELSE IF IsElement(nodes[child]) \/ IsRoot(nodes[child]) THEN child
        ELSE childElement(nodes, child)

\* Component.placeholder: the component whose comment stands in, or NoNode.
RECURSIVE placeholder(_, _)
placeholder(nodes, id) ==
    IF nodes[id].comment THEN id
    ELSE IF nodes[id].child # NoNode /\ IsComponent(nodes[nodes[id].child])
    THEN placeholder(nodes, nodes[id].child)
    ELSE NoNode

\* placeholder.ref: NoRef when there is no placeholder.
PlaceholderRef(nodes, id) ==
    IF placeholder(nodes, id) = NoNode THEN NoRef ELSE 0 - placeholder(nodes, id)

\* node.ref: the element itself, the custom element of a root, or
\* Component.renderedNode.
Ref(nodes, id) ==
    IF IsElement(nodes[id]) \/ HasCustomElement(nodes[id]) THEN id
    ELSE IF childElement(nodes, id) # NoNode THEN childElement(nodes, id)
    ELSE PlaceholderRef(nodes, id)

\* Renderer.createElement
createElement(description) ==
    [className |-> description.class,
     style |-> description.style,
     attributes |-> MapMerge(AttributeNames(description.attrs),
                             description.customAttrs),
     dataset |-> description.dataset,
     properties |-> description.properties,
     listeners |->
        { <<getEventName(k), description.listeners[k]>> :
              k \in DOMAIN description.listeners }
          \cup { <<k, description.customListeners[k]>> :
                     k \in DOMAIN description.customListeners },
     textContent |-> IF description.text \in {NoText, ""} THEN ""
                     ELSE description.text,
     childNodes |-> <<>>]

\* VirtualDOM.createFromDescription: the heap with the new subtree, and the
\* id of its top node.
RECURSIVE createFromDescription(_, _, _)
RECURSIVE CreateChildren(_, _, _, _, _)
CreateChildren(nodes, descriptions, parent, i, ids) ==
    IF i > Len(descriptions) THEN [nodes |-> nodes, ids |-> ids]
    ELSE LET Created(made) ==
                 CreateChildren(made.nodes, descriptions, parent, i + 1,
                                Append(ids, made.id))
         IN  Created(createFromDescription(nodes, descriptions[i], parent))

createFromDescription(nodes, description, parentNode) ==
    LET id == Len(nodes) + 1
    IN  IF description.type = "element"
        THEN LET key == IF Truthy(description.key) THEN description.key
                        ELSE NoKey
                 node == VirtualNode("element", description, key, parentNode)
                 WithChildren(kids) ==
                     [nodes |->
                         [kids.nodes EXCEPT
                             ![id].children = kids.ids,
                             ![id].ref =
                                 [createElement(description) EXCEPT
                                     !.childNodes =
                                         [i \in 1 .. Len(kids.ids) |->
                                             Ref(kids.nodes, kids.ids[i])]]],
                      id |-> id]
             IN  WithChildren(CreateChildren(Append(nodes, node),
                                             description.children, id, 1, <<>>))
        ELSE IF IsRootClass(description.component)
        THEN [nodes |-> Append(nodes, SubRoot(description.component,
                                              description.props)),
              id |-> id]
        ELSE LET node == [VirtualNode("component", description,
                                      description.key, parentNode)
                              EXCEPT !.comment = TRUE]
                 WithChild(childDescription) ==
                     LET Rendered(made) ==
                             [nodes |-> [made.nodes EXCEPT
                                            ![id].child = made.id,
                                            ![id].comment = FALSE,
                                            ![made.id].parentNode = id],
                              id |-> id]
                     IN  IF IsNull(childDescription)
                         THEN [nodes |-> Append(nodes, node), id |-> id]
                         ELSE Rendered(createFromDescription(
                                  Append(nodes, node), childDescription, id))
             IN  WithChild(RendererRender(description.component,
                                          description.props))

(***************************************************************************)
(* The DOM.  A world is the heap, the child nodes of the container and     *)
(* whether a DOM call or a property access has thrown.                     *)
(***************************************************************************)
World(nodes, container) ==
    [nodes |-> nodes, container |-> container, thrown |-> FALSE]

Throw(w) == [w EXCEPT !.thrown = TRUE]

DomChildren(w, parent) ==
    IF parent = ContainerRef THEN w.container
    ELSE w.nodes[parent].ref.childNodes

DomSetChildren(w, parent, refs) ==
    IF parent = ContainerRef THEN [w EXCEPT !.container = refs]
    ELSE [w EXCEPT !.nodes[parent].ref.childNodes = refs]

\* The DOM parent of a node: the container, an element, or NoParent.
DomParent(w, ref) ==
    IF ref \in Range(w.container) THEN ContainerRef
    ELSE IF \E i \in 1 .. Len(w.nodes) : ref \in Range(w.nodes[i].ref.childNodes)
    THEN CHOOSE i \in 1 .. Len(w.nodes) : ref \in Range(w.nodes[i].ref.childNodes)
    ELSE NoParent

\* A node joining a parent leaves the one it had.
DomDetach(w, ref) ==
    [w EXCEPT
        !.container = Without(@, ref),
        !.nodes = [i \in 1 .. Len(w.nodes) |->
                      [w.nodes[i] EXCEPT !.ref.childNodes = Without(@, ref)]]]

\* old.replaceWith(new): nothing happens to a node without a parent.
DomReplaceWith(w, old, new) ==
    IF DomParent(w, old) = NoParent \/ old = new THEN w
    ELSE LET parent == DomParent(w, old)
             detached == DomDetach(w, new)
             kids == DomChildren(detached, parent)
         IN  DomSetChildren(detached, parent,
                 [i \in 1 .. Len(kids) |->
                     IF kids[i] = old THEN new ELSE kids[i]])

\* parent.insertBefore(ref, before); before = NoRef appends.  A `before`
\* that is not a child of parent throws NotFoundError.
DomInsertBefore(w, parent, ref, before) ==
    IF before # NoRef /\ before \notin Range(DomChildren(w, parent))
    THEN Throw(w)
    ELSE IF before = ref THEN w
    ELSE LET detached == DomDetach(w, ref)
             kids == DomChildren(detached, parent)
             at == IF before = NoRef THEN Len(kids) ELSE IndexOf(kids, before)
         IN  DomSetChildren(detached, parent, SpliceInsert(kids, at, ref))

\* parent.removeChild(ref) throws NotFoundError for a node that is no child.
DomRemoveChild(w, parent, ref) ==
    IF ref \notin Range(DomChildren(w, parent)) THEN Throw(w)
    ELSE DomSetChildren(w, parent, Without(DomChildren(w, parent), ref))

\* element.children[index]: the element children only, comments skipped.
DomElementChild(w, parent, index) ==
    LET elements == SelectSeq(DomChildren(w, parent), LAMBDA r : r > 0)
    IN  IF index >= 0 /\ index < Len(elements) THEN elements[index + 1]
        ELSE NoRef

(***************************************************************************)
(* The methods of Component and VirtualElement that patches call           *)
(* (src/unnamed/part_006, 777-798 and 1227-1323), on a world.              *)
(***************************************************************************)
\* items.splice(at, 1, item)
SpliceReplace(items, at, item) ==
    LET n == Len(items)
        p == IF at < 0 THEN Max(n + at, 0) ELSE Min(at, n)
    IN  SubSeq(items, 1, p) \o <<item>> \o SubSeq(items, p + 2, n)

\* Component.appendChild: `this.comment.parentNode` throws on a component
\* that holds no comment, after the child has been set.
ComponentAppendChild(w, parent, child) ==
    LET set == [w EXCEPT !.nodes[parent].child = child,
                         !.nodes[child].parentNode = parent]
    IN  IF ~w.nodes[parent].comment THEN Throw(set)
        ELSE [set EXCEPT !.nodes[parent].comment = FALSE]

\* A variant of Component.removeChild that creates no comment.
ComponentRemoveChildBare(w, parent, child) ==
    IF w.nodes[parent].child = NoNode THEN Throw(w)
    ELSE [w EXCEPT !.nodes[w.nodes[parent].child].parentNode = NoNode,
                   !.nodes[parent].child = NoNode]

\* Component.removeChild: `this.child.parentNode` throws without a child.
ComponentRemoveChild(w, parent, child) ==
    IF w.nodes[parent].child = NoNode THEN Throw(w)
    ELSE [w EXCEPT !.nodes[w.nodes[parent].child].parentNode = NoNode,
                   !.nodes[parent].child = NoNode,
                   !.nodes[parent].comment = TRUE]

\* Component.replaceChild
ComponentReplaceChild(w, parent, child, node) ==
    IF w.nodes[parent].child = NoNode THEN Throw(w)
    ELSE [w EXCEPT !.nodes[w.nodes[parent].child].parentNode = NoNode,
                   !.nodes[parent].child = node,
                   !.nodes[node].parentNode = parent]

\* VirtualElement.insertChild
insertChild(w, parent, child, index) ==
    LET children == w.nodes[parent].children
        nextChild == IF index >= 0 /\ index < Len(children)
                     THEN children[index + 1] ELSE NoNode
        spliced == [w EXCEPT !.nodes[parent].children =
                                 SpliceInsert(children, index, child)]
        before == IF nextChild = NoNode THEN NoRef ELSE Ref(w.nodes, nextChild)
    IN  IF Ref(w.nodes, child) = NoRef \/ (nextChild # NoNode /\ before = NoRef)
        THEN Throw(spliced)
        ELSE LET inserted == DomInsertBefore(spliced, parent,
                                             Ref(w.nodes, child), before)
             IN  IF inserted.thrown THEN inserted
                 ELSE [inserted EXCEPT !.nodes[child].parentNode = parent]

\* VirtualElement.moveChild: the node before which the child lands is looked
\* up among the element children of the DOM parent.
moveChild(w, parent, child, from, to) ==
    LET children == w.nodes[parent].children
        spliced == [w EXCEPT !.nodes[parent].children =
                        SpliceInsert(SpliceRemove(children, from), to, child)]
        ref == Ref(w.nodes, child)
        removed == DomRemoveChild(spliced, parent, ref)
    IN  IF ref = NoRef THEN Throw(spliced)
        ELSE IF removed.thrown THEN removed
        ELSE DomInsertBefore(removed, parent, ref,
                             DomElementChild(removed, parent, to))

\* VirtualElement.replaceChild
replaceChild(w, parent, child, node) ==
    LET children == w.nodes[parent].children
        index == IndexOf(children, child)
        spliced == [w EXCEPT
                       !.nodes[parent].children =
                           SpliceReplace(children, index, node),
                       !.nodes[child].parentNode = NoNode,
                       !.nodes[node].parentNode = parent]
    IN  IF Ref(w.nodes, child) = NoRef \/ Ref(w.nodes, node) = NoRef
        THEN Throw(spliced)
        ELSE DomReplaceWith(spliced, Ref(w.nodes, child), Ref(w.nodes, node))

\* A variant of VirtualElement.removeChild that leaves child.parentNode.
removeChildLinked(w, parent, child) ==
    LET children == w.nodes[parent].children
        index == IndexOf(children, child)
        spliced == [w EXCEPT
                       !.nodes[parent].children = SpliceRemove(children, index)]
    IN  IF Ref(w.nodes, child) = NoRef THEN Throw(spliced)
        ELSE DomRemoveChild(spliced, parent, Ref(w.nodes, child))

\* VirtualElement.removeChild
removeChild(w, parent, child) ==
    LET children == w.nodes[parent].children
        index == IndexOf(children, child)
        spliced == [w EXCEPT
                       !.nodes[parent].children = SpliceRemove(children, index),
                       !.nodes[child].parentNode = NoNode]
    IN  IF Ref(w.nodes, child) = NoRef THEN Throw(spliced)
        ELSE DomRemoveChild(spliced, parent, Ref(w.nodes, child))

(***************************************************************************)
(* Patches (src/unnamed/part_006, 2077-2451).                              *)
(***************************************************************************)
PatchInitRootComponent(root) == [type |-> "init-root-component", root |-> root]

PatchUpdateNode(nodes, node, description) ==
    [type |-> "update-node", node |-> node,
     prevDescription |-> nodes[node].description, description |-> description]

PatchAppendChild(child, parent) ==
    [type |-> "append-child", child |-> child, parent |-> parent]

PatchRemoveChild(child, parent) ==
    [type |-> "remove-child", child |-> child, parent |-> parent]

PatchReplaceChild(child, node, parent) ==
    [type |-> "replace-child", child |-> child, node |-> node, parent |-> parent]

PatchSetAttribute(name, value, element, isCustom) ==
    [type |-> "set-attribute", name |-> name, value |-> value,
     target |-> element, isCustom |-> isCustom]

PatchRemoveAttribute(name, element, isCustom) ==
    [type |-> "remove-attribute", name |-> name, target |-> element,
     isCustom |-> isCustom]

PatchSetDataAttribute(name, value, element) ==
    [type |-> "set-data-attribute", name |-> name, value |-> value,
     target |-> element]

PatchRemoveDataAttribute(name, element) ==
    [type |-> "remove-data-attribute", name |-> name, target |-> element]

PatchSetStyleProperty(property, value, element) ==
    [type |-> "set-style-property", property |-> property, value |-> value,
     target |-> element]

PatchRemoveStyleProperty(property, element) ==
    [type |-> "remove-style-property", property |-> property, target |-> element]

PatchSetClassName(className, element) ==
    [type |-> "set-class-name", className |-> className, target |-> element]

PatchAddListener(name, listener, element, isCustom) ==
    [type |-> "add-listener", name |-> name, listener |-> listener,
     target |-> element, isCustom |-> isCustom]

PatchReplaceListener(name, removed, added, element, isCustom) ==
    [type |-> "replace-listener", name |-> name, removed |-> removed,
     added |-> added, target |-> element, isCustom |-> isCustom]

PatchRemoveListener(name, listener, element, isCustom) ==
    [type |-> "remove-listener", name |-> name, listener |-> listener,
     target |-> element, isCustom |-> isCustom]

PatchSetProperty(key, value, element) ==
    [type |-> "set-property", key |-> key, value |-> value, target |-> element]

PatchDeleteProperty(key, element) ==
    [type |-> "delete-property", key |-> key, target |-> element]

PatchInsertChildNode(node, at, parent) ==
    [type |-> "insert-child-node", node |-> node, at |-> at, parent |-> parent]

PatchMoveChildNode(node, from, to, parent) ==
    [type |-> "move-child-node", node |-> node, from |-> from, to |-> to,
     parent |-> parent]

PatchReplaceChildNode(child, node, parent) ==
    [type |-> "replace-child-node", child |-> child, node |-> node,
     parent |-> parent]

PatchRemoveChildNode(node, at, parent) ==
    [type |-> "remove-child-node", node |-> node, at |-> at, parent |-> parent]

PatchSetTextContent(element, text) ==
    [type |-> "set-text-content", element |-> element, text |-> text]

PatchRemoveTextContent(element) ==
    [type |-> "remove-text-content", element |-> element]

EventOf(patch) ==
    IF patch.isCustom THEN patch.name ELSE getEventName(patch.name)

AttributeOf(patch) ==
    IF patch.isCustom THEN patch.name ELSE getAttributeName(patch.name)

\* root.container: the container the root was mounted in, or the slot of
\* its custom element.
Container(nodes, root) ==
    IF HasCustomElement(nodes[root]) THEN root ELSE ContainerRef

ApplyInitRootComponent(w, patch) ==
    IF PlaceholderRef(w.nodes, patch.root) = NoRef THEN Throw(w)
    ELSE DomInsertBefore(w, Container(w.nodes, patch.root),
                         PlaceholderRef(w.nodes, patch.root), NoRef)

ApplyAppendChild(w, patch) ==
    LET comment == PlaceholderRef(w.nodes, patch.parent)
        appended == ComponentAppendChild(w, patch.parent, patch.child)
    IN  IF comment = NoRef THEN Throw(w)
        ELSE IF appended.thrown THEN appended
        ELSE IF Ref(appended.nodes, patch.child) = NoRef THEN Throw(appended)
        ELSE DomReplaceWith(appended, comment, Ref(appended.nodes, patch.child))

ApplyReplaceChild(w, patch) ==
    LET ref == Ref(w.nodes, patch.child)
        replaced == ComponentReplaceChild(w, patch.parent, patch.child, patch.node)
    IN  IF ref = NoRef THEN Throw(w)
        ELSE IF replaced.thrown THEN replaced
        ELSE IF Ref(replaced.nodes, patch.node) = NoRef THEN Throw(replaced)
        ELSE DomReplaceWith(replaced, ref, Ref(replaced.nodes, patch.node))

ApplyRemoveChild(w, patch) ==
    LET ref == Ref(w.nodes, patch.child)
        removed == ComponentRemoveChild(w, patch.parent, patch.child)
    IN  IF ref = NoRef THEN Throw(w)
        ELSE IF removed.thrown THEN removed
        ELSE DomReplaceWith(removed, ref,
                            PlaceholderRef(removed.nodes, patch.parent))

\* The references patch.apply() and the method it calls read from the tree
\* and the DOM as they are: placeholders, the refs of components and the
\* node a moved or inserted child lands before.
Resolved(w, patch) ==
    CASE patch.type = "init-root-component" ->
             [placeholder |-> PlaceholderRef(w.nodes, patch.root)]
      [] patch.type = "append-child" ->
             [placeholder |-> PlaceholderRef(w.nodes, patch.parent),
              ref |-> Ref(w.nodes, patch.child)]
      [] patch.type = "replace-child" ->
             [ref |-> Ref(w.nodes, patch.child),
              node |-> Ref(w.nodes, patch.node)]
      [] patch.type = "remove-child" ->
             [ref |-> Ref(w.nodes, patch.child)]
      [] patch.type = "move-child-node" ->
             [ref |-> Ref(w.nodes, patch.node),
              before |-> DomElementChild(
                  DomSetChildren(w, patch.parent,
                      Without(DomChildren(w, patch.parent),
                              Ref(w.nodes, patch.node))),
                  patch.parent, patch.to)]
      [] patch.type = "insert-child-node" ->
             [ref |-> Ref(w.nodes, patch.node),
              before |-> IF patch.at < Len(w.nodes[patch.parent].children)
                         THEN Ref(w.nodes,
                                  w.nodes[patch.parent].children[patch.at + 1])
                         ELSE NoRef]
      [] patch.type = "replace-child-node" ->
             [ref |-> Ref(w.nodes, patch.child),
              node |-> Ref(w.nodes, patch.node)]
      [] patch.type = "remove-child-node" ->
             [ref |-> Ref(w.nodes, patch.node)]
      [] OTHER -> <<>>

\* patch.apply()
Apply(w, patch) ==
    CASE patch.type = "init-root-component" -> ApplyInitRootComponent(w, patch)
      [] patch.type = "update-node" ->
            [w EXCEPT !.nodes[patch.node].description = patch.description]
      [] patch.type = "append-child" -> ApplyAppendChild(w, patch)
      [] patch.type = "replace-child" -> ApplyReplaceChild(w, patch)
      [] patch.type = "remove-child" -> ApplyRemoveChild(w, patch)
      [] patch.type = "set-attribute" ->
            [w EXCEPT !.nodes[patch.target].ref.attributes =
                          MapSet(@, AttributeOf(patch), patch.value)]
      [] patch.type = "remove-attribute" ->
            [w EXCEPT !.nodes[patch.target].ref.attributes =
                          MapRemove(@, AttributeOf(patch))]
      [] patch.type = "set-data-attribute" ->
            [w EXCEPT !.nodes[patch.target].ref.dataset =
                          MapSet(@, patch.name, patch.value)]
      [] patch.type = "remove-data-attribute" ->
            [w EXCEPT !.nodes[patch.target].ref.dataset =
                          MapRemove(@, patch.name)]
      [] patch.type = "set-style-property" ->
            [w EXCEPT !.nodes[patch.target].ref.style =
                          MapSet(@, patch.property, patch.value)]
      [] patch.type = "remove-style-property" ->
            [w EXCEPT !.nodes[patch.target].ref.style =
                          MapRemove(@, patch.property)]
      [] patch.type = "set-class-name" ->
            [w EXCEPT !.nodes[patch.target].ref.className = patch.className]
      [] patch.type = "add-listener" ->
            [w EXCEPT !.nodes[patch.target].ref.listeners =
                          @ \cup {<<EventOf(patch), patch.listener>>}]
      [] patch.type = "replace-listener" ->
            [w EXCEPT !.nodes[patch.target].ref.listeners =
                          (@ \ {<<EventOf(patch), patch.removed>>})
                              \cup {<<EventOf(patch), patch.added>>}]
      [] patch.type = "remove-listener" ->
            [w EXCEPT !.nodes[patch.target].ref.listeners =
                          @ \ {<<EventOf(patch), patch.listener>>}]
      [] patch.type = "set-property" ->
            [w EXCEPT !.nodes[patch.target].ref.properties =
                          MapSet(@, patch.key, patch.value)]
      [] patch.type = "delete-property" ->
            [w EXCEPT !.nodes[patch.target].ref.properties =
                          MapRemove(@, patch.key)]
      [] patch.type = "insert-child-node" ->
            insertChild(w, patch.parent, patch.node, patch.at)
      [] patch.type = "move-child-node" ->
            moveChild(w, patch.parent, patch.node, patch.from, patch.to)
      [] patch.type = "replace-child-node" ->
            replaceChild(w, patch.parent, patch.child, patch.node)
      [] patch.type = "remove-child-node" ->
            removeChild(w, patch.parent, patch.node)
      [] patch.type = "set-text-content" ->
            [w EXCEPT !.nodes[patch.element].ref.textContent = patch.text,
                      !.nodes[patch.element].ref.childNodes = <<>>]
      [] patch.type = "remove-text-content" ->
            [w EXCEPT !.nodes[patch.element].ref.textContent = "",
                      !.nodes[patch.element].ref.childNodes = <<>>]

\* The loop of Diff.apply over the patches.
RECURSIVE ApplyAll(_, _)
ApplyAll(w, patches) ==
    IF Len(patches) = 0 THEN w
    ELSE ApplyAll(Apply(w, Head(patches)), Tail(patches))

(***************************************************************************)
(* Lifecycle (src/unnamed/part_006, 1863-2071).  A notification gives the  *)
(* sequence of the calls it makes: [hook, node] for a hook of a component  *)
(* that defines it, and "destroy" for Component.destroy().                 *)
(***************************************************************************)
RECURSIVE ConcatAll(_)
ConcatAll(seqs) ==
    IF Len(seqs) = 0 THEN <<>> ELSE Head(seqs) \o ConcatAll(Tail(seqs))

Call(hook, id) == [hook |-> hook, node |-> id]

Hook(nodes, id, hook) ==
    IF HasOwnMethod(nodes[id].description.component, hook)
    THEN <<Call(hook, id)>> ELSE <<>>

RECURSIVE onNodeCreated(_, _)
onNodeCreated(nodes, id) ==
    IF IsElement(nodes[id])
    THEN ConcatAll([i \in 1 .. Len(nodes[id].children) |->
                       onNodeCreated(nodes, nodes[id].children[i])])
    ELSE IF IsRoot(nodes[id]) THEN <<>>
    ELSE Hook(nodes, id, "onCreated")
             \o (IF nodes[id].child # NoNode
                 THEN onNodeCreated(nodes, nodes[id].child) ELSE <<>>)

\* A variant that calls the hook of a component before it walks its child.
RECURSIVE onNodeAttachedEarly(_, _)
onNodeAttachedEarly(nodes, id) ==
    IF IsElement(nodes[id])
    THEN ConcatAll([i \in 1 .. Len(nodes[id].children) |->
                       onNodeAttachedEarly(nodes, nodes[id].children[i])])
    ELSE IF IsRoot(nodes[id]) THEN <<>>
    ELSE Hook(nodes, id, "onAttached")
             \o (IF nodes[id].child # NoNode
                 THEN onNodeAttachedEarly(nodes, nodes[id].child) ELSE <<>>)

RECURSIVE onNodeAttached(_, _)
onNodeAttached(nodes, id) ==
    IF IsElement(nodes[id])
    THEN ConcatAll([i \in 1 .. Len(nodes[id].children) |->
                       onNodeAttached(nodes, nodes[id].children[i])])
    ELSE IF IsRoot(nodes[id]) THEN <<>>
    ELSE (IF nodes[id].child # NoNode
          THEN onNodeAttached(nodes, nodes[id].child) ELSE <<>>)
             \o Hook(nodes, id, "onAttached")

RECURSIVE onNodeDestroyed(_, _)
onNodeDestroyed(nodes, id) ==
    IF IsElement(nodes[id])
    THEN ConcatAll([i \in 1 .. Len(nodes[id].children) |->
                       onNodeDestroyed(nodes, nodes[id].children[i])])
    ELSE IF IsRoot(nodes[id]) THEN <<>>
    ELSE <<Call("destroy", id)>>
             \o Hook(nodes, id, "onDestroyed")
             \o (IF nodes[id].child # NoNode
                 THEN onNodeDestroyed(nodes, nodes[id].child) ELSE <<>>)

RECURSIVE onNodeDetached(_, _)
onNodeDetached(nodes, id) ==
    IF IsElement(nodes[id])
    THEN ConcatAll([i \in 1 .. Len(nodes[id].children) |->
                       onNodeDetached(nodes, nodes[id].children[i])])
    ELSE IF IsRoot(nodes[id]) THEN <<>>
    ELSE (IF nodes[id].child # NoNode
          THEN onNodeDetached(nodes, nodes[id].child) ELSE <<>>)
             \o Hook(nodes, id, "onDetached")

onNodeReceivedDescription(nodes, id) ==
    IF IsComponent(nodes[id]) THEN Hook(nodes, id, "onPropsReceived") ELSE <<>>

onNodeUpdated(nodes, id) ==
    IF IsComponent(nodes[id]) THEN Hook(nodes, id, "onUpdated") ELSE <<>>

\* Lifecycle.beforePatchApplied
beforePatchApplied(nodes, patch) ==
    CASE patch.type = "append-child" -> onNodeCreated(nodes, patch.child)
      [] patch.type = "init-root-component" -> Hook(nodes, patch.root, "onCreated")
      [] patch.type = "insert-child-node" -> onNodeCreated(nodes, patch.node)
      [] patch.type = "remove-child-node" -> onNodeDestroyed(nodes, patch.node)
      [] patch.type = "remove-child" -> onNodeDestroyed(nodes, patch.child)
      [] patch.type = "replace-child" ->
            onNodeDestroyed(nodes, patch.child) \o onNodeCreated(nodes, patch.node)
      [] patch.type = "update-node" -> onNodeReceivedDescription(nodes, patch.node)
      [] OTHER -> <<>>

\* Lifecycle.afterPatchApplied
afterPatchApplied(nodes, patch) ==
    CASE patch.type = "append-child" -> onNodeAttached(nodes, patch.child)
      [] patch.type = "init-root-component" -> Hook(nodes, patch.root, "onAttached")
      [] patch.type = "insert-child-node" -> onNodeAttached(nodes, patch.node)
      [] patch.type = "remove-child-node" -> onNodeDetached(nodes, patch.node)
      [] patch.type = "remove-child" -> onNodeDetached(nodes, patch.child)
      [] patch.type = "replace-child" ->
            onNodeDetached(nodes, patch.child) \o onNodeAttached(nodes, patch.node)
      [] patch.type = "update-node" -> onNodeUpdated(nodes, patch.node)
      [] OTHER -> <<>>

(***************************************************************************)
(* Diff (src/unnamed/part_006, 1388-1857).  A diff in progress is the heap *)
(* (the diff creates the nodes it will insert), the list of patches,       *)
(* whether the calculation has thrown and the hooks that the roots nested *)
(* in the tree have fired while it went on.                                *)
(***************************************************************************)
\* A variant that puts the patch in front of the others.
AddPatchFirst(d, patch) == [d EXCEPT !.patches = <<patch>> \o @]

AddPatch(d, patch) == [d EXCEPT !.patches = Append(@, patch)]

AddPatches(d, patches) == [d EXCEPT !.patches = @ \o patches]

IsDefined(text) == text # NoText

Added(current, next) == SelectSeq(Keys(next), LAMBDA k : k \notin DOMAIN current)

Removed(current, next) == SelectSeq(Keys(current), LAMBDA k : k \notin DOMAIN next)

ChangedNever(current, next) == <<>>

Changed(current, next) ==
    SelectSeq(Keys(current),
              LAMBDA k : k \in DOMAIN next /\ current[k] # next[k])

\* A variant that compares the functions and not their sources.
ChangedListenersByFunction(current, next) ==
    SelectSeq(Keys(current),
              LAMBDA k : k \in DOMAIN next /\ current[k] # next[k])

\* Listeners count as changed when they differ and come from different
\* source functions, or from no source function at all.
ChangedListeners(current, next) ==
    SelectSeq(Keys(current),
              LAMBDA k : /\ k \in DOMAIN next
                         /\ current[k] # next[k]
                         /\ \/ current[k].source = "" /\ next[k].source = ""
                            \/ current[k].source # next[k].source)

classNamePatches(current, next, element) ==
    IF current # next THEN <<PatchSetClassName(next, element)>> ELSE <<>>

stylePatches(current, next, element) ==
    LET added == Added(current, next)
        removed == Removed(current, next)
        changed == Changed(current, next)
    IN  [i \in 1 .. Len(added) |->
            PatchSetStyleProperty(added[i], next[added[i]], element)]
        \o [i \in 1 .. Len(removed) |->
            PatchRemoveStyleProperty(removed[i], element)]
        \o [i \in 1 .. Len(changed) |->
            PatchSetStyleProperty(changed[i], next[changed[i]], element)]

attributePatches(current, next, element, isCustom) ==
    LET added == Added(current, next)
        removed == Removed(current, next)
        changed == Changed(current, next)
    IN  [i \in 1 .. Len(added) |->
            PatchSetAttribute(added[i], next[added[i]], element, isCustom)]
        \o [i \in 1 .. Len(removed) |->
            PatchRemoveAttribute(removed[i], element, isCustom)]
        \o [i \in 1 .. Len(changed) |->
            PatchSetAttribute(changed[i], next[changed[i]], element, isCustom)]

listenerPatches(current, next, element, isCustom) ==
    LET added == Added(current, next)
        removed == Removed(current, next)
        changed == ChangedListeners(current, next)
    IN  [i \in 1 .. Len(added) |->
            PatchAddListener(added[i], next[added[i]], element, isCustom)]
        \o [i \in 1 .. Len(removed) |->
            PatchRemoveListener(removed[i], current[removed[i]], element,
                                isCustom)]
        \o [i \in 1 .. Len(changed) |->
            PatchReplaceListener(changed[i], current[changed[i]],
                                 next[changed[i]], element, isCustom)]

datasetPatches(current, next, element) ==
    LET added == Added(current, next)
        removed == Removed(current, next)
        changed == Changed(current, next)
    IN  [i \in 1 .. Len(added) |->
            PatchSetDataAttribute(added[i], next[added[i]], element)]
        \o [i \in 1 .. Len(removed) |->
            PatchRemoveDataAttribute(removed[i], element)]
        \o [i \in 1 .. Len(changed) |->
            PatchSetDataAttribute(changed[i], next[changed[i]], element)]

propertiesPatches(current, next, element) ==
    LET added == Added(current, next)
        removed == Removed(current, next)
        changed == Changed(current, next)
    IN  [i \in 1 .. Len(added) |->
            PatchSetProperty(added[i], next[added[i]], element)]
        \o [i \in 1 .. Len(removed) |->
            PatchDeleteProperty(removed[i], element)]
        \o [i \in 1 .. Len(changed) |->
            PatchSetProperty(changed[i], next[changed[i]], element)]

\* The patches of elementPatches for the property categories of an element.
ElementPropertyPatches(current, next, element) ==
    classNamePatches(current.class, next.class, element)
        \o stylePatches(current.style, next.style, element)
        \o attributePatches(current.attrs, next.attrs, element, FALSE)
        \o listenerPatches(current.listeners, next.listeners, element, FALSE)
        \o datasetPatches(current.dataset, next.dataset, element)
        \o propertiesPatches(current.properties, next.properties, element)
        \o attributePatches(current.customAttrs, next.customAttrs, element, TRUE)
        \o listenerPatches(current.customListeners, next.customListeners,
                           element, TRUE)

\* node.description.key || index
KeyOrIndex(key, index) == IF Truthy(key) THEN key ELSE index

\* sourceNodes.find(node => props && props.beingDragged), and its key.
IsBeingDragged(description) ==
    /\ description.type = "component"
    /\ description.component = "Row"
    /\ description.props.beingDragged

FavoredKey(nodes, sourceNodes) ==
    IF \E i \in 1 .. Len(sourceNodes) :
           IsBeingDragged(nodes[sourceNodes[i]].description)
    THEN nodes[sourceNodes[
             CHOOSE i \in 1 .. Len(sourceNodes) :
                 /\ IsBeingDragged(nodes[sourceNodes[i]].description)
                 /\ \A j \in 1 .. (i - 1) :
                        ~IsBeingDragged(nodes[sourceNodes[j]].description)]].key
    ELSE NoKey

RECURSIVE componentPatches(_, _, _, _)
RECURSIVE componentChildPatches(_, _, _, _, _)
RECURSIVE childPatches(_, _, _, _)
RECURSIVE elementPatches(_, _, _, _)
RECURSIVE elementChildrenPatches(_, _, _, _, _)
RECURSIVE elementChildPatches(_, _, _, _, _)
RECURSIVE MovePatches(_, _, _, _, _, _, _)
RECURSIVE RetainedChildPatches(_, _, _, _, _, _, _)
RECURSIVE SubRootUpdate(_, _, _)

\* `rootState` is root.state while the diff is calculated.
componentPatches(d, component, description, rootState) ==
    IF /\ deepEqual(d.nodes[component].description, description)
       /\ (~IsRoot(d.nodes[component]) \/ rootState # NullState)
    THEN d
    ELSE LET childDescription ==
                 RendererRender(description.component, description.props)
             done == componentChildPatches(d, d.nodes[component].child,
                                           childDescription, component,
                                           rootState)
             Updated(calculated) ==
                 AddPatch(calculated,
                          PatchUpdateNode(calculated.nodes, component, description))
         IN  Updated(done)

componentChildPatches(d, child, description, parent, rootState) ==
    IF child = NoNode /\ IsNull(description) THEN d
    ELSE IF child = NoNode
    THEN LET Appended(made) ==
                 AddPatch([d EXCEPT !.nodes = made.nodes],
                          PatchAppendChild(made.id, parent))
         IN  Appended(createFromDescription(d.nodes, description, parent))
    ELSE IF IsNull(description)
    THEN AddPatch(d, PatchRemoveChild(child, parent))
    ELSE IF IsCompatible(d.nodes[child].description, description)
    THEN IF deepEqual(d.nodes[child].description, description) THEN d
         ELSE childPatches(d, child, description, rootState)
    ELSE LET Replaced(made) ==
                 AddPatch([d EXCEPT !.nodes = made.nodes],
                          PatchReplaceChild(child, made.id, parent))
         IN  Replaced(createFromDescription(d.nodes, description, parent))

\* Diff.childPatches: a root nested in the tree is not diffed, it is sent
\* the description and updates itself.
childPatches(d, child, description, rootState) ==
    IF IsComponent(d.nodes[child])
    THEN IF IsRoot(d.nodes[child]) THEN SubRootUpdate(d, child, description)
         ELSE componentPatches(d, child, description, rootState)
    ELSE elementPatches(d, child, description, rootState)

elementPatches(d, element, description, rootState) ==
    IF deepEqual(d.nodes[element].description, description) THEN d
    ELSE LET current == d.nodes[element].description
             WithText(d3) ==
                 LET d4 == IF IsDefined(description.text)
                               /\ description.text # current.text
                           THEN AddPatch(d3, PatchSetTextContent(
                                                 element, description.text))
                           ELSE d3
                 IN  AddPatch(d4, PatchUpdateNode(d3.nodes, element,
                                                  description))
             WithChildren(d2) ==
                 WithText(IF Len(d.nodes[element].children) > 0
                              \/ Len(description.children) > 0
                          THEN elementChildrenPatches(
                                   d2, d.nodes[element].children,
                                   description.children, element, rootState)
                          ELSE d2)
             WithProperties(d1) ==
                 WithChildren(IF IsDefined(current.text)
                                  /\ ~IsDefined(description.text)
                              THEN AddPatch(d1, PatchRemoveTextContent(element))
                              ELSE d1)
         IN  WithProperties(AddPatches(d, ElementPropertyPatches(
                                              current, description, element)))

\* The loop over the moves: `acc` holds the diff, the working copy of the
\* children, the nodes created so far and the key each was created for.
MovePatches(acc, ms, from, to, sourceNodes, targetDescriptions, parent) ==
    IF Len(ms) = 0 THEN acc
    ELSE LET move == Head(ms)
             isSource == \E i \in 1 .. Len(from) : from[i] = move.item
             isCreated == move.item \in DOMAIN acc.createdNodesMap
             creates == ~isSource /\ move.name # "move"
             Patched(made, node) ==
                 [d |-> AddPatch(
                      IF creates THEN [acc.d EXCEPT !.nodes = made.nodes]
                      ELSE acc.d,
                      CASE move.name = "remove" ->
                               PatchRemoveChildNode(node, move.at, parent)
                        [] move.name = "insert" ->
                               PatchInsertChildNode(node, move.at, parent)
                        [] move.name = "move" ->
                               PatchMoveChildNode(node, move.from, move.to,
                                                  parent)),
                  children |-> Make([move EXCEPT !.item = node], acc.children),
                  created |-> IF creates THEN acc.created \cup {made.id}
                              ELSE acc.created,
                  createdNodesMap |->
                      IF creates
                      THEN MapSet(acc.createdNodesMap, move.item, made.id)
                      ELSE acc.createdNodesMap]
             Made(made) ==
                 Patched(made,
                         IF isSource
                         THEN sourceNodes[IndexOf(from, move.item) + 1]
                         ELSE IF move.name = "move"
                         THEN (IF isCreated THEN acc.createdNodesMap[move.item]
                               ELSE NoNode)
                         ELSE made.id)
             Moved(next) ==
                 MovePatches(next, Tail(ms), from, to, sourceNodes,
                             targetDescriptions, parent)
         IN  Moved(Made(createFromDescription(
                       acc.d.nodes,
                       targetDescriptions[IndexOf(to, move.item) + 1], parent)))

\* The final loop: every child that was not created is matched against the
\* description at its index i; reading past the descriptions throws.
RetainedChildPatches(d, children, i, created, targetDescriptions, parent, rootState) ==
    IF i > Len(children) THEN d
    ELSE IF children[i] \in created
    THEN RetainedChildPatches(d, children, i + 1, created, targetDescriptions,
                              parent, rootState)
    ELSE IF i > Len(targetDescriptions) THEN [d EXCEPT !.thrown = TRUE]
    ELSE RetainedChildPatches(
             elementChildPatches(d, children[i], targetDescriptions[i], parent,
                                 rootState),
             children, i + 1, created, targetDescriptions, parent, rootState)

\* In debug mode assertUniqueKeys throws for keys that repeat, before a
\* move is calculated.
elementChildrenPatches(d, sourceNodes, targetDescriptions, parent, rootState) ==
    LET Unique(from, to) ==
            ~isDebug \/ (IsDupFree(from) /\ IsDupFree(to))
        Retained(moved) ==
            RetainedChildPatches(moved.d, moved.children, 1, moved.created,
                                 targetDescriptions, parent, rootState)
        Moved(from, to) ==
            IF ~Unique(from, to) THEN [d EXCEPT !.thrown = TRUE]
            ELSE Retained(MovePatches(
                [d |-> d, children |-> sourceNodes, created |-> {},
                 createdNodesMap |-> <<>>],
                calculateMoves(from, to, FavoredKey(d.nodes, sourceNodes),
                               engine).list,
                from, to, sourceNodes, targetDescriptions, parent))
    IN  Moved([i \in 1 .. Len(sourceNodes) |->
                  KeyOrIndex(d.nodes[sourceNodes[i]].description.key, i - 1)],
              [i \in 1 .. Len(targetDescriptions) |->
                  KeyOrIndex(targetDescriptions[i].key, i - 1)])

elementChildPatchesSkipped(d, child, description, parent, rootState) == d

\* A variant that also updates the child it replaces.
elementChildPatchesUpdating(d, child, description, parent, rootState) ==
    IF IsCompatible(d.nodes[child].description, description)
    THEN IF deepEqual(d.nodes[child].description, description) THEN d
         ELSE childPatches(d, child, description, rootState)
    ELSE LET Replaced(made) ==
                 AddPatch(AddPatch([d EXCEPT !.nodes = made.nodes],
                                   PatchUpdateNode(d.nodes, child, description)),
                          PatchReplaceChildNode(child, made.id, parent))
         IN  Replaced(createFromDescription(d.nodes, description, parent))

elementChildPatches(d, child, description, parent, rootState) ==
    IF IsCompatible(d.nodes[child].description, description)
    THEN IF deepEqual(d.nodes[child].description, description) THEN d
         ELSE childPatches(d, child, description, rootState)
    ELSE LET Replaced(made) ==
                 AddPatch([d EXCEPT !.nodes = made.nodes],
                          PatchReplaceChildNode(child, made.id, parent))
         IN  Replaced(createFromDescription(d.nodes, description, parent))

\* Diff.rootPatches: the diff, and root.state once it has returned or
\* thrown; the state is assigned after the patches are calculated.
rootPatches(nodes, root, currentState, nextState) ==
    LET started == [nodes |-> nodes,
                    patches |-> IF currentState = NullState
                                THEN <<PatchInitRootComponent(root)>> ELSE <<>>,
                    thrown |-> FALSE,
                    fired |-> <<>>]
        description ==
            describe(ComponentTemplate(nodes[root].description.component,
                                       nextState))
    IN  IF currentState = nextState
        THEN [d |-> started, state |-> currentState]
        ELSE LET Returned(d) ==
                     [d |-> d,
                      state |-> IF d.thrown THEN currentState ELSE nextState]
             IN  Returned(componentPatches(started, root, description,
                                           currentState))

(***************************************************************************)
(* The module loader (src/unnamed/part_006, 21-366).  A promise is a       *)
(* number; loader.resolved holds the promises that have been resolved.  A  *)
(* class or another exported value is a record; `serial` tells apart the   *)
(* classes that the same expression creates at different times.            *)
(***************************************************************************)
Exported(name, isComponent) ==
    [name |-> name, isComponent |-> isComponent, renderer |-> "",
     serial |-> 0]

\* module.exports = null; Map.get of a key that is absent.
NoExports == Exported("null", FALSE)

\* A class extending opr.Toolkit.Component.
ComponentClass(name) == Exported(name, TRUE)

Has(map, key) == key \in DOMAIN map

\* new Module(id, isRequired)
Module(id, isRequired) ==
    [id |-> id, isRequired |-> isRequired, exports |-> NoExports,
     dependencies |-> <<>>, isLoaded |-> FALSE, isPending |-> FALSE]

ResolvedPromise == 0       \* Promise.resolve(null)
NoPromise == 0 - 1         \* no promise held

\* new Loader(), with the maps exportPromises and loadPromises beside it.
NewLoader ==
    [ready |-> ResolvedPromise, context |-> <<>>, registry |-> <<>>,
     loadPromises |-> <<>>, resolved |-> {ResolvedPromise}, promises |-> 1]

\* Loader.registerModule
registerModule(L, id, isRequired) ==
    [L EXCEPT !.registry = MapSet(@, id, Module(id, isRequired))]

Registered(L, id) == IF Has(L.registry, id) THEN L ELSE registerModule(L, id, FALSE)

\* Loader.define: the first definition of an id stays.
define(L, id, exported) ==
    IF Registered(L, id).registry[id].exports = NoExports
    THEN [Registered(L, id) EXCEPT !.registry[id].exports = exported]
    ELSE Registered(L, id)

\* Loader.get
LoaderGet(L, id) ==
    IF Has(L.registry, id) THEN L.registry[id].exports ELSE NoExports

\* Context.registerDependencyTo: the dependencies are a Set.
registerDependencyTo(L, id) ==
    IF L.context = <<>> THEN L
    ELSE LET current == L.context[Len(L.context)]
         IN  IF \E k \in 1 .. Len(L.registry[current].dependencies) :
                    L.registry[current].dependencies[k] = id
             THEN L
             ELSE [L EXCEPT !.registry[current].dependencies = Append(@, id)]

\* Loader.symbol
symbol(L, id) == registerDependencyTo(Registered(L, id), id)

\* The script of a module runs: it declares its symbols in order.
RECURSIVE Declared(_, _, _)
Declared(L, symbols, done) ==
    IF done = Len(symbols) THEN L
    ELSE Declared(symbol(L, symbols[done + 1]), symbols, done + 1)

\* Loader.load up to the await of the script: Context.save, isPending.
LoadStarted(L, id) ==
    [Registered(L, id) EXCEPT !.context = Append(@, id),
                              !.registry[id].isPending = TRUE]

\* Loader.load after the script has run and set module.exports:
\* Context.restore pops the module.
LoadEnded(L, id, script) ==
    [Declared(L, script.symbols, 0) EXCEPT
        !.registry[id].isPending = FALSE,
        !.registry[id].exports = script.exports,
        !.context = SubSeq(@, 1, Len(@) - 1)]

\* A call of loadWithDependencies in progress: awaiting the script of its
\* module, or going through the dependencies of the module.
Frame(id, phase) == [id |-> id, phase |-> phase, next |-> 1]

Going(L, frames) == [loader |-> L, frames |-> frames]

RECURSIVE Continue(_, _)
RECURSIVE loadWithDependencies(_, _, _)

\* Loader.loadWithDependencies(id) up to its first await of a script.
\* Loader.resolve returns the exports there are; no call of it meets a
\* module that is pending, as one call of preload loads at a time.
loadWithDependencies(L, frames, id) ==
    IF LoaderGet(L, id) # NoExports
    THEN Continue(L, Append(frames, Frame(id, "dependencies")))
    ELSE Going(LoadStarted(L, id), Append(frames, Frame(id, "script")))

\* The innermost call goes on with the dependencies that have no exports;
\* when none is left the module is loaded and the call returns to the one
\* that awaits it.
Continue(L, frames) ==
    IF frames = <<>> THEN Going(L, frames)
    ELSE LET top == frames[Len(frames)]
             dependencies == L.registry[top.id].dependencies
             missing == { k \in top.next .. Len(dependencies) :
                              L.registry[dependencies[k]].exports = NoExports }
             first == CHOOSE k \in missing : \A j \in missing : k <= j
         IN  IF missing = {}
             THEN Continue([L EXCEPT !.registry[top.id].isLoaded = TRUE],
                           SubSeq(frames, 1, Len(frames) - 1))
             ELSE loadWithDependencies(L,
                      [frames EXCEPT ![Len(frames)].next = first + 1],
                      dependencies[first])

\* A call of Loader.preload: the id, where it stands, the promise it
\* awaits, the promise its `done` resolves, and the calls of
\* loadWithDependencies it is in.
PreloadCall(id, pc, awaits, done, frames) ==
    [id |-> id, pc |-> pc, awaits |-> awaits, done |-> done,
     frames |-> frames]

\* done()
Released(L, done) == [L EXCEPT !.resolved = @ \cup {done}]
(***************************************************************************)
(* Toolkit.resolveComponentClass (src/unnamed/part_006, 3969-4017): a      *)
(* reference is a component class, a render function or the symbol of a    *)
(* module id.                                                              *)
(***************************************************************************)
Reference(type, name) == [type |-> type, name |-> name]

\* What a call of resolveComponentClass comes to.
Resolution(reference, class, error) ==
    [reference |-> reference, class |-> class, thrown |-> error # "",
     error |-> error]

\* A variant in which the registry never has the class.
PureClassOfNone(registry, fn) == NoExports

\* pureComponentClassRegistry.get(fn)
PureClassOf(registry, fn) ==
    IF Has(registry, fn) THEN registry[fn] ELSE NoExports

\* class PureComponent extends opr.Toolkit.Component, evaluated by the call
\* of the given number.
PureComponent(fn, serial) ==
    [name |-> "PureComponent", isComponent |-> TRUE, renderer |-> fn,
     serial |-> serial]

\* Toolkit.resolvePureComponentClass: the class, and the registry after.
resolvePureComponentClass(registry, fn, serial) ==
    IF PureClassOf(registry, fn) # NoExports
    THEN [class |-> PureClassOf(registry, fn), registry |-> registry]
    ELSE [class |-> PureComponent(fn, serial),
          registry |-> MapSet(registry, fn, PureComponent(fn, serial))]

\* String(component).slice(7, -1) of Symbol.for(id)
SymbolId(name) == name

\* Toolkit.resolveLoadedClass
resolveLoadedClass(L, reference) ==
    IF LoaderGet(L, SymbolId(reference.name)) = NoExports
    THEN Resolution(reference, NoExports, "Error resolving component class")
    ELSE IF ~LoaderGet(L, SymbolId(reference.name)).isComponent
    THEN Resolution(reference, NoExports, "Module is not a component class")
    ELSE Resolution(reference, LoaderGet(L, SymbolId(reference.name)), "")

\* Toolkit.resolveComponentClass: the resolution, and the registry after.
resolveComponentClass(reference, registry, L, serial) ==
    CASE reference.type = "component" ->
             [resolution |->
                  Resolution(reference, ComponentClass(reference.name), ""),
              registry |-> registry]
      [] reference.type = "function" ->
             [resolution |->
                  Resolution(reference,
                      resolvePureComponentClass(registry, reference.name,
                                                serial).class, ""),
              registry |->
                  resolvePureComponentClass(registry, reference.name,
                                            serial).registry]
      [] reference.type = "symbol" ->
             [resolution |-> resolveLoadedClass(L, reference),
              registry |-> registry]
      [] OTHER ->
             [resolution |->
                  Resolution(reference, NoExports,
                             "Unsupported component type"),
              registry |-> registry]
(***************************************************************************)
(* Plugins of a root (src/unnamed/part_006, 2604-2812): the registry with  *)
(* its cache of listeners, and the uninstall functions the installations   *)
(* have returned.  A Map is the sequence of its entries in insertion       *)
(* order.                                                                  *)
(***************************************************************************)
\* new Plugin(manifest): its name, whether its permissions hold
\* 'listen-for-updates', and whether the manifest has an install function.
Plugin(name, isListener, hasInstall) ==
    [name |-> name, isListener |-> isListener, hasInstall |-> hasInstall]

\* new Plugins(root), with its new Registry().
NewPlugins ==
    [registry |-> [plugins |-> <<>>, listeners |-> <<>>], uninstalls |-> {}]

\* Registry.isRegistered
isRegistered(registry, name) ==
    \E k \in 1 .. Len(registry.plugins) : registry.plugins[k].name = name

\* Map.set(plugin.name, plugin): a name that is there keeps its place.
PluginsSet(entries, plugin) ==
    IF \E k \in 1 .. Len(entries) : entries[k].name = plugin.name
    THEN [k \in 1 .. Len(entries) |->
              IF entries[k].name = plugin.name THEN plugin ELSE entries[k]]
    ELSE Append(entries, plugin)

\* Registry.updateCache
updateCache(registry) ==
    [registry EXCEPT
        !.listeners = SelectSeq(registry.plugins, LAMBDA p : p.isListener)]

\* Registry.add
RegistryAdd(registry, plugin) ==
    updateCache([registry EXCEPT !.plugins = PluginsSet(@, plugin)])

\* Plugins.install: the uninstall function the installation returns is
\* kept under the name of the plugin.
PluginsInstall(P, plugin) ==
    IF plugin.hasInstall
    THEN [P EXCEPT !.uninstalls = @ \cup {plugin.name}]
    ELSE P

\* Plugins.uninstall: whether the uninstall function is there to be run.
HasUninstall(P, name) == name \in P.uninstalls

\* Plugins.uninstall: the plugins after the call.
PluginsUninstall(P, name) == P

\* What is done to the plugins, and what the plugins have run.
Event(type, name) == [type |-> type, name |-> name]

\* Plugins.notify: every listener of the cache, in order.
Notifications(registry) ==
    [k \in 1 .. Len(registry.listeners) |->
         Event("update", registry.listeners[k].name)]
(***************************************************************************)
(* The parts of the toolkit beside the rendering system are at rest while  *)
(* the root is studied, and the root while they are.                       *)
(***************************************************************************)
TemplateIdle ==
    /\ templateArg = NullValue
    /\ describeResult = NotDescribed

ThrottleIdle ==
    /\ clock = 0
    /\ throttled = NoThrottle
    /\ timers = {}
    /\ throttledCalls = <<>>
    /\ timestamps = <<>>

ResolverIdle ==
    /\ pureComponentClassRegistry = <<>>
    /\ resolutions = <<>>

LoaderIdle ==
    /\ loader = NewLoader
    /\ preloads = <<>>
    /\ scripts = <<>>

PluginsIdle ==
    /\ plugins = NewPlugins
    /\ notified = <<>>

\* A root as its constructor leaves it (part_006 905-927): root.dispatch is
\* set, and no originator tracks the root yet.
Bound == "dispatch"
NoDispatch == "null"

LifeIdle ==
    /\ dispatch = Bound
    /\ roots = {}
    /\ initPc = "created"
    /\ invocations = 0

UtilIdle ==
    /\ LifeIdle
    /\ TemplateIdle
    /\ ThrottleIdle
    /\ ResolverIdle
    /\ LoaderIdle
    /\ PluginsIdle

(***************************************************************************)
(* The rendering system: a root mounted in a container, the commands that  *)
(* replace its state and the application of each batch of patches, one     *)
(* hook or patch at a time (Root.dispatch 916-920, Renderer.updateDOM      *)
(* 3038-3068, Diff.apply 1407-1415, Lifecycle.beforeUpdate / afterUpdate). *)
(***************************************************************************)
RootNode == NoNode + 1

\* VirtualDOM.createRoot: the root is described without props, holds its
\* placeholder comment and has no state yet.
InitialRoot ==
    [VirtualNode("root", describe(ComponentTemplate("Root", NoProps)), NoKey,
                 NoNode)
        EXCEPT !.comment = TRUE]

\* The nodes of the virtual tree under (and including) node id.
RECURSIVE Reach(_, _)
Reach(nodes, id) ==
    {id}
        \cup (IF nodes[id].child # NoNode THEN Reach(nodes, nodes[id].child)
              ELSE {})
        \cup UNION { Reach(nodes, nodes[id].children[i]) :
                         i \in 1 .. Len(nodes[id].children) }

\* The nodes of the virtual tree in depth-first order.
RECURSIVE DepthFirst(_, _)
DepthFirst(nodes, id) ==
    <<id>>
        \o (IF nodes[id].child # NoNode THEN DepthFirst(nodes, nodes[id].child)
            ELSE <<>>)
        \o ConcatAll([i \in 1 .. Len(nodes[id].children) |->
                         DepthFirst(nodes, nodes[id].children[i])])

\* A node that the virtual tree no longer holds.
StaleNode == 0 - 99

\* Between dispatches only the nodes of the virtual tree matter: they are
\* renumbered in depth-first order and every other node is dropped.
Renumbered(order, id) ==
    IF id = NoNode THEN NoNode
    ELSE IF \E i \in 1 .. Len(order) : order[i] = id
    THEN CHOOSE i \in 1 .. Len(order) : order[i] = id
    ELSE StaleNode

RenumberedRef(order, ref) ==
    IF ref >= 0 THEN Renumbered(order, ref)
    ELSE IF Renumbered(order, 0 - ref) = StaleNode THEN StaleNode
    ELSE 0 - Renumbered(order, 0 - ref)

Collected(nodes, container) ==
    LET order == DepthFirst(nodes, RootNode)
        renumber(node) ==
            [node EXCEPT
                !.parentNode = Renumbered(order, @),
                !.child = Renumbered(order, @),
                !.children = [i \in 1 .. Len(@) |-> Renumbered(order, @[i])],
                !.ref.childNodes =
                    [i \in 1 .. Len(@) |-> RenumberedRef(order, @[i])]]
    IN  [nodes |-> [i \in 1 .. Len(order) |-> renumber(nodes[order[i]])],
         container |-> [i \in 1 .. Len(container) |->
                           RenumberedRef(order, container[i])]]

\* Steps of one batch: every before-hook in patch order, every patch in
\* order, every after-hook in reverse patch order.
Step(step, index, calls) == [step |-> step, index |-> index, calls |-> calls]

Top == stack[Len(stack)]

WithTop(frame) == [stack EXCEPT ![Len(stack)] = frame]

\* Root.dispatch: the reducer gives the next state, the diff is calculated
\* against the tree as it is and Diff.apply starts on its patches.  The
\* batch keeps the states it leads from and to, the nodes of the tree it
\* was calculated against, the references each patch resolves there and the
\* hooks that nested roots fired during the diff.
Begin(nextState) ==
    LET Started(diff) ==
            /\ heap' = diff.d.nodes
            /\ state' = diff.state
            /\ crashed' = diff.d.thrown
            /\ stack' = Append(stack,
                   [patches |-> diff.d.patches,
                    phase |-> IF Len(diff.d.patches) = 0 THEN "done"
                              ELSE "before",
                    i |-> 1,
                    steps |-> <<>>,
                    from |-> state,
                    to |-> nextState,
                    before |-> Reach(heap, RootNode),
                    fired |-> diff.d.fired,
                    resolved |->
                        [p \in 1 .. Len(diff.d.patches) |->
                            Resolved(World(diff.d.nodes, containerNodes),
                                     diff.d.patches[p])]])
            /\ UNCHANGED containerNodes
    IN  Started(rootPatches(heap, RootNode, state, nextState))

Idle == stack = <<>> /\ ~crashed

\* Root.init: commands.init(state), the first command of a root.
RootInit ==
    /\ Idle
    /\ state = NullState
    /\ \E nextState \in AppStates : Begin(nextState)
    /\ UNCHANGED <<reentered, recVars, engine, tripVars, ready, utilVars>>

\* commands.setState(state) sent while no command is being applied.
SetState ==
    /\ Idle
    /\ state # NullState
    /\ ~reentered
    /\ \E nextState \in AppStates : Begin(nextState)
    /\ UNCHANGED <<reentered, recVars, engine, tripVars, ready, utilVars>>

\* The state a hook of the application sends.
HookStates == { AppState("none", NoLook, <<>>) }

LastCalls == IF Len(Top.steps) = 0 THEN <<>> ELSE Top.steps[Len(Top.steps)].calls

\* commands.setState(state) sent by the onCreated or the onAttached hook
\* that has just run, while its batch is being applied.
HookDispatch ==
    /\ stack # <<>>
    /\ ~crashed
    /\ ~reentered
    /\ Top.phase # "done"
    /\ \E c \in 1 .. Len(LastCalls) : LastCalls[c].hook \in {"onCreated", "onAttached"}
    /\ \E nextState \in HookStates : Begin(nextState)
    /\ reentered' = TRUE
    /\ UNCHANGED <<recVars, engine, tripVars, ready, utilVars>>

\* A variant of Diff.apply that applies each patch right after its
\* before-hooks.
NextStepInterleaved(phase, i, n) ==
    CASE phase = "before" -> [phase |-> "apply", i |-> i]
      [] phase = "apply" -> IF i < n THEN [phase |-> "before", i |-> i + 1]
                            ELSE [phase |-> "after", i |-> 1]
      [] OTHER -> IF i < n THEN [phase |-> "after", i |-> i + 1]
                  ELSE [phase |-> "done", i |-> 1]

\* Diff.apply: Lifecycle.beforeUpdate walks every patch, then the loop
\* applies every patch, then Lifecycle.afterUpdate walks every patch.
NextStep(phase, i, n) ==
    IF i < n THEN [phase |-> phase, i |-> i + 1]
    ELSE [phase |-> CASE phase = "before" -> "apply"
                      [] phase = "apply" -> "after"
                      [] OTHER -> "done",
          i |-> 1]

\* Lifecycle.beforeUpdate, one patch.
BeforeHook ==
    /\ stack # <<>>
    /\ ~crashed
    /\ Top.phase = "before"
    /\ stack' = WithTop([Top EXCEPT
               !.steps = Append(@, Step("before", Top.i,
                              beforePatchApplied(heap, Top.patches[Top.i]))),
               !.phase = NextStep(Top.phase, Top.i, Len(Top.patches)).phase,
               !.i = NextStep(Top.phase, Top.i, Len(Top.patches)).i])
    /\ UNCHANGED <<state, heap, containerNodes, reentered, crashed, recVars,
                   engine, tripVars, ready, utilVars>>

\* The loop of Diff.apply, one patch.  An exception leaves the dispatch.
ApplyPatch ==
    /\ stack # <<>>
    /\ ~crashed
    /\ Top.phase = "apply"
    /\ LET applied == Apply(World(heap, containerNodes), Top.patches[Top.i])
       IN  /\ heap' = applied.nodes
           /\ containerNodes' = applied.container
           /\ crashed' = applied.thrown
           /\ stack' = WithTop([Top EXCEPT
                  !.steps = Append(@, Step("apply", Top.i, <<>>)),
                  !.phase = NextStep(Top.phase, Top.i, Len(Top.patches)).phase,
                  !.i = NextStep(Top.phase, Top.i, Len(Top.patches)).i])
    /\ UNCHANGED <<state, reentered, recVars, engine, tripVars, ready,
                   utilVars>>

\* Lifecycle.afterUpdate walks `[...patches].reverse()`: its k-th hook is
\* for this patch of the n patches.
AfterOrderForward(n, k) == k

AfterOrder(n, k) == n + 1 - k

\* Root.dispatch of a root nested in the tree: Renderer.updateDOM runs
\* within the diff that sent the update.  The diff of the nested root is
\* calculated, root.state is assigned and Diff.apply calls the
\* before-hooks, applies the patches and calls the after-hooks.
SubRootDispatch(nodes, root, nextState) ==
    LET Hooks(fired, before, after) == fired \o before \o after
        Done(fired, before, patches, w) ==
            [nodes |-> w.nodes, thrown |-> w.thrown,
             fired |->
                 IF w.thrown THEN fired \o before
                 ELSE Hooks(fired, before,
                          ConcatAll([k \in 1 .. Len(patches) |->
                              afterPatchApplied(w.nodes,
                                  patches[AfterOrder(Len(patches), k)])]))]
        Applied(fired, patches, stated) ==
            Done(fired,
                 ConcatAll([k \in 1 .. Len(patches) |->
                               beforePatchApplied(stated, patches[k])]),
                 patches, ApplyAll(World(stated, <<>>), patches))
        Diffed(diff) ==
            IF diff.d.thrown
            THEN [nodes |-> diff.d.nodes, thrown |-> TRUE,
                  fired |-> diff.d.fired]
            ELSE Applied(diff.d.fired, diff.d.patches,
                         [diff.d.nodes EXCEPT ![root].state = diff.state])
    IN  Diffed(rootPatches(nodes, root, nodes[root].state, nextState))

\* Root.update(description): getUpdatedState lays the props of the
\* description over those of the root's description, and the reducer lays
\* the state of the update command over root.state.
SubRootUpdate(d, child, description) ==
    LET Updated(done) ==
            [d EXCEPT !.nodes = done.nodes,
                      !.fired = @ \o done.fired,
                      !.thrown = done.thrown]
        Sent(rootState, commandState) ==
            Updated(SubRootDispatch(d.nodes, child,
                IF rootState = NullState THEN commandState
                ELSE MapMerge(rootState, commandState)))
    IN  IF d.thrown THEN d
        ELSE Sent(d.nodes[child].state,
                  MapMerge(d.nodes[child].description.props,
                           description.props))

\* Lifecycle.afterUpdate, one patch.
AfterHook ==
    /\ stack # <<>>
    /\ ~crashed
    /\ Top.phase = "after"
    /\ LET index == AfterOrder(Len(Top.patches), Top.i)
       IN  stack' = WithTop([Top EXCEPT
               !.steps = Append(@, Step("after", index,
                              afterPatchApplied(heap, Top.patches[index]))),
               !.phase = NextStep(Top.phase, Top.i, Len(Top.patches)).phase,
               !.i = NextStep(Top.phase, Top.i, Len(Top.patches)).i])
    /\ UNCHANGED <<state, heap, containerNodes, reentered, crashed, recVars,
                   engine, tripVars, ready, utilVars>>

\* A variant that takes every command for commands.init.
ReturnsToInitAlways(frames) == TRUE

\* Whether the innermost dispatch was made by Root.init: it is the only
\* one in progress and it began with no state.
ReturnsToInit(frames) ==
    Len(frames) = 1 /\ frames[1].from = NullState

\* Renderer.update returns.  When it returns to Root.init, the root is
\* marked as ready.
Finish ==
    /\ stack # <<>>
    /\ ~crashed
    /\ Top.phase = "done"
    /\ stack' = SubSeq(stack, 1, Len(stack) - 1)
    /\ IF Len(stack) = 1
       THEN /\ heap' = Collected(heap, containerNodes).nodes
            /\ containerNodes' = Collected(heap, containerNodes).container
       ELSE UNCHANGED <<heap, containerNodes>>
    /\ ready' = IF ReturnsToInit(stack) THEN "resolved" ELSE ready
    /\ UNCHANGED <<state, reentered, crashed, recVars, engine, tripVars,
                   utilVars>>

NoOrigin == [state |-> NullState, tree |-> <<>>, dom |-> <<>>]

Init ==
    /\ state = NullState
    /\ heap = <<InitialRoot>>
    /\ containerNodes = <<>>
    /\ stack = <<>>
    /\ reentered = FALSE
    /\ crashed = FALSE
    /\ ready = "pending"
    /\ engine \in Engines
    /\ source = <<>>
    /\ target = <<>>
    /\ favoredToMove = NoKey
    /\ moves = NoMoves
    /\ called = FALSE
    /\ origin = NoOrigin
    /\ hops = 0
    /\ UtilIdle

Next ==
    \/ RootInit
    \/ SetState
    \/ HookDispatch
    \/ BeforeHook
    \/ ApplyPatch
    \/ AfterHook
    \/ Finish

Spec == Init /\ [][Next]_vars

\* The reconciler and the root at rest while another part is studied.
RootIdle ==
    /\ source = <<>>
    /\ target = <<>>
    /\ favoredToMove = NoKey
    /\ engine = "insertion"
    /\ moves = NoMoves
    /\ called = FALSE
    /\ state = NullState
    /\ heap = <<>>
    /\ containerNodes = <<>>
    /\ stack = <<>>
    /\ reentered = FALSE
    /\ crashed = FALSE
    /\ ready = "pending"
    /\ origin = NoOrigin
    /\ hops = 0
    /\ LifeIdle

(***************************************************************************)
(* The reconciler on its own: every pair of duplicate-free key sequences   *)
(* within the bounds and the two four-key reorderings below, every         *)
(* favoured key and both hosts.                                            *)
(***************************************************************************)
IsMixed(keys) == (\E k \in keys : IsStr(k)) /\ (\E k \in keys : ~IsStr(k))

\* [a, b, c, d] -> [b, d, a, c] and [a, b, c, d] -> [d, b, c, a].
FourKeyPairs ==
    { <<(<<KeyA, KeyB, KeyC, KeyD>>), (<<KeyB, KeyD, KeyA, KeyC>>)>>,
      <<(<<KeyA, KeyB, KeyC, KeyD>>), (<<KeyD, KeyB, KeyC, KeyA>>)>> }

ReconcilerInputs ==
    (DupFreeSeqs(AllKeys, MaxLen) \X DupFreeSeqs(AllKeys, MaxLen))
        \cup FourKeyPairs

InitReconciler ==
    /\ \E input \in ReconcilerInputs :
          /\ source = input[1]
          /\ target = input[2]
    /\ favoredToMove = NoKey
    /\ engine = "insertion"
    /\ moves = NoMoves
    /\ called = FALSE
    /\ state = NullState
    /\ heap = <<>>
    /\ containerNodes = <<>>
    /\ stack = <<>>
    /\ reentered = FALSE
    /\ crashed = FALSE
    /\ ready = "pending"
    /\ origin = NoOrigin
    /\ hops = 0
    /\ UtilIdle

\* One call of Reconciler.calculateMoves.  The hosts differ only on mixed
\* keys, so the second host is tried only there.
Calculate ==
    /\ ~called
    /\ \E favored \in {NoKey} \cup AllKeys,
          eng \in IF IsMixed(Range(source) \cup Range(target))
                  THEN Engines ELSE {"insertion"} :
          /\ favoredToMove' = favored
          /\ engine' = eng
          /\ moves' = calculateMoves(source, target, favored, eng)
    /\ called' = TRUE
    /\ UNCHANGED <<source, target, treeVars, tripVars, utilVars>>

NextReconciler == Calculate

SpecReconciler == InitReconciler /\ [][NextReconciler]_vars

IsSetMove(m) == m.name # "move"

\* The sequence after the removals and insertions of a returned list.
Intermediate == MakeAll(SelectSeq(moves.list, IsSetMove), source)

\* The length of the longest common subsequence of x and y.
RECURSIVE LCS(_, _)
LCS(x, y) ==
    IF Len(x) = 0 \/ Len(y) = 0 THEN 0
    ELSE IF Head(x) = Head(y) THEN 1 + LCS(Tail(x), Tail(y))
    ELSE Max(LCS(Tail(x), y), LCS(x, Tail(y)))

\* C1: applying the returned operations in order to a copy of source gives
\* target, and moves.result equals target.
C1_MovesReachTarget ==
    called => /\ MakeAll(moves.list, source) = target
              /\ moves.result = target

\* C1 witness: a call that returned a removal, an insertion and a move.
C1_Witness ==
    /\ called
    /\ \E i, j, k \in 1 .. Len(moves.list) :
          /\ moves.list[i].name = "remove"
          /\ moves.list[j].name = "insert"
          /\ moves.list[k].name = "move"

\* The pair [x, y, z] -> [y, x, z] of three string keys, x favoured.
IsFavoredSwap ==
    /\ called
    /\ Len(source) = 3
    /\ \A i \in 1 .. 3 : IsStr(source[i])
    /\ target = <<source[2], source[1], source[3]>>
    /\ favoredToMove = source[1]

C9_MinimalityBound ==
    called =>
        Len(moves.list) <=
            Cardinality(Range(source) \ Range(target))
                + Cardinality(Range(target) \ Range(source))
                + (Len(Intermediate) - LCS(Intermediate, target))

(***************************************************************************)
(* What a root has rendered.                                               *)
(***************************************************************************)
\* The virtual tree under node id: the kind, the key and the description of
\* every node, whether it points back at its parent, and its descendants.
RECURSIVE VirtualTree(_, _, _)
VirtualTree(nodes, id, parent) ==
    [kind |-> nodes[id].kind,
     key |-> nodes[id].key,
     description |-> nodes[id].description,
     comment |-> nodes[id].comment,
     attached |-> nodes[id].parentNode = parent,
     child |-> IF nodes[id].child = NoNode THEN <<>>
               ELSE <<VirtualTree(nodes, nodes[id].child, id)>>,
     children |-> [i \in 1 .. Len(nodes[id].children) |->
                      VirtualTree(nodes, nodes[id].children[i], id)]]

\* The DOM tree under a DOM node.
RECURSIVE DomTree(_, _)
DomTree(nodes, ref) ==
    IF ref = StaleNode THEN [node |-> "stale"]
    ELSE IF ref < 0 THEN [node |-> "comment"]
    ELSE [node |-> nodes[ref].description.name,
          className |-> nodes[ref].ref.className,
          style |-> nodes[ref].ref.style,
          attributes |-> nodes[ref].ref.attributes,
          dataset |-> nodes[ref].ref.dataset,
          properties |-> nodes[ref].ref.properties,
          listeners |-> nodes[ref].ref.listeners,
          textContent |-> nodes[ref].ref.textContent,
          childNodes |-> [i \in 1 .. Len(nodes[ref].ref.childNodes) |->
                             DomTree(nodes, nodes[ref].ref.childNodes[i])]]

ContainerTree(nodes, container) ==
    [i \in 1 .. Len(container) |-> DomTree(nodes, container[i])]

\* The world a root renders for a state from scratch: the init command on
\* a new root, applied to completion.
FromScratch(appState) ==
    LET diff == rootPatches(<<InitialRoot>>, RootNode, NullState, appState)
    IN  ApplyAll(World(diff.d.nodes, <<>>), diff.d.patches)

(***************************************************************************)
(* A round trip: a root is initialised with one state, is sent a second    *)
(* state and is then sent the first state again.                           *)
(***************************************************************************)
\* commands.setState(B): what the root has rendered for A is kept.
TripForth ==
    /\ Idle
    /\ state # NullState
    /\ hops = 0
    /\ \E nextState \in AppStates : Begin(nextState)
    /\ origin' = [state |-> state,
                  tree |-> VirtualTree(heap, RootNode, NoNode),
                  dom |-> ContainerTree(heap, containerNodes)]
    /\ hops' = 1
    /\ UNCHANGED <<reentered, recVars, engine, ready, utilVars>>

\* commands.setState(A)
TripBack ==
    /\ Idle
    /\ hops = 1
    /\ Begin(origin.state)
    /\ hops' = 2
    /\ UNCHANGED <<origin, reentered, recVars, engine, ready, utilVars>>

NextRoundTrip ==
    \/ RootInit
    \/ TripForth
    \/ TripBack
    \/ BeforeHook
    \/ ApplyPatch
    \/ AfterHook
    \/ Finish

SpecRoundTrip == Init /\ [][NextRoundTrip]_vars

\* C7: after a root has gone from state A to state B and back to A, its
\* virtual tree and the DOM of its container equal the ones it had for A.
C7_RoundTripRestores ==
    (Idle /\ hops = 2) =>
        /\ VirtualTree(heap, RootNode, NoNode) = origin.tree
        /\ ContainerTree(heap, containerNodes) = origin.dom

\* A command has been applied to completion and no other was sent meanwhile.
Completed ==
    /\ ~crashed
    /\ ~reentered
    /\ state # NullState
    /\ stack = <<>> \/ (Len(stack) = 1 /\ Top.phase = "done")

HasPatch(patches, type) ==
    \E p \in 1 .. Len(patches) : patches[p].type = type

ExpectedStep(n, k) ==
    IF k <= n THEN <<"before", k>>
    ELSE IF k <= 2 * n THEN <<"apply", k - n>>
    ELSE <<"after", 3 * n + 1 - k>>

StepsInOrder(frame) ==
    LET n == Len(frame.patches)
    IN  /\ Len(frame.steps) <= 3 * n
        /\ \A k \in 1 .. Len(frame.steps) :
               <<frame.steps[k].step, frame.steps[k].index>> = ExpectedStep(n, k)
        /\ (frame.phase = "done") => Len(frame.steps) = 3 * n

\* C3: in the batch of one command the before-hooks run for every patch in
\* patch order before the first patch is applied, the patches are applied
\* in the order of the diff, and the after-hooks run in reverse patch order
\* after the last patch has been applied.
C3_HooksAroundPatches ==
    \A f \in 1 .. Len(stack) : StepsInOrder(stack[f])

C3_Witness ==
    /\ Len(stack) = 1
    /\ Top.phase = "done"
    /\ Len(Top.patches) >= 3
    /\ StepsInOrder(Top)

\* C4: no command of the root begins its diff while the batch of an earlier
\* command is between its first before-hook and its last after-hook, not
\* even a command sent by a lifecycle hook.
C4_DispatchNotReentrant ==
    \A f \in 1 .. Len(stack) - 1 :
        stack[f].steps = <<>> \/ stack[f].phase = "done"

AllCalls(frame) ==
    ConcatAll([k \in 1 .. Len(frame.steps) |-> frame.steps[k].calls])

CountCalls(calls, hook, id) ==
    Cardinality({ c \in 1 .. Len(calls) : calls[c] = Call(hook, id) })

\* The components that were in the tree when the batch was calculated and
\* are no longer in it.
ComponentsGone(frame) ==
    { id \in frame.before \ Reach(heap, RootNode) : IsComponent(heap[id]) }

\* C5: every component that leaves the tree in a batch is torn down exactly
\* once in that batch: destroy(), onDestroyed and onDetached each run once
\* for it.
C5_TornDownOnce ==
    (Completed /\ Len(stack) = 1) =>
        \A id \in ComponentsGone(Top) :
            /\ CountCalls(AllCalls(Top), "destroy", id) = 1
            /\ CountCalls(AllCalls(Top), "onDestroyed", id) = 1
            /\ CountCalls(AllCalls(Top), "onDetached", id) = 1

\* The node a patch changes: the node it updates, or the parent or element
\* whose child, property or text it changes.
Subject(patch) ==
    CASE patch.type = "update-node" -> patch.node
      [] patch.type = "init-root-component" -> patch.root
      [] patch.type \in {"append-child", "remove-child", "replace-child",
                         "insert-child-node", "move-child-node",
                         "replace-child-node", "remove-child-node"} ->
            patch.parent
      [] patch.type \in {"set-text-content", "remove-text-content"} ->
            patch.element
      [] OTHER -> patch.target

UpdateOf(patches, id) ==
    { q \in 1 .. Len(patches) :
          patches[q].type = "update-node" /\ patches[q].node = id }

\* A batch that has just been calculated.
Calculated == stack # <<>> /\ Top.steps = <<>>

\* C6: the diff against an equal description is empty.  A command that
\* leaves a non-null state as it is gives no patch; a patch for a node
\* comes only with an update of that node to a description that differs
\* from its current one, and with such an update of its parent; the one
\* exception is the initialisation of a root whose state is null.
C6_EqualDescriptionNoPatch ==
    Calculated =>
        /\ (Top.from # NullState /\ Top.from = Top.to) => Top.patches = <<>>
        /\ \A p \in 1 .. Len(Top.patches) :
              LET patch == Top.patches[p]
                  id == Subject(patch)
              IN  IF patch.type = "init-root-component"
                  THEN p = 1 /\ Top.from = NullState
                  ELSE /\ \E q \in UpdateOf(Top.patches, id) :
                              \/ Top.patches[q].prevDescription
                                     # Top.patches[q].description
                              \/ id = RootNode /\ Top.from = NullState
                       /\ (id # RootNode /\ heap[id].parentNode # NoNode) =>
                              UpdateOf(Top.patches, heap[id].parentNode) # {}

\* A section is updated while one of its rows keeps its description, and
\* no patch is for that row.
C6_Witness ==
    /\ Calculated
    /\ Top.from # NullState
    /\ \E q \in 1 .. Len(Top.patches) :
          /\ Top.patches[q].type = "update-node"
          /\ IsElement(heap[Top.patches[q].node])
          /\ \E i \in 1 .. Len(heap[Top.patches[q].node].children) :
                LET row == heap[Top.patches[q].node].children[i]
                IN  /\ \E j \in 1 .. Len(Top.patches[q].description.children) :
                          Top.patches[q].description.children[j]
                              = heap[row].description
                    /\ \A p \in 1 .. Len(Top.patches) :
                          /\ Subject(Top.patches[p]) # row
                          /\ Top.patches[p].type = "move-child-node" =>
                                 Top.patches[p].node # row

\* For every map-valued category of the element: one set patch for a key
\* that is new or has another value, with the next value, one remove patch
\* for a key that is gone, and no other patch for the key.
PrecisePatches(patches, element, current, next) ==
    LET CountPatches(Matches(_)) ==
            Cardinality({ p \in 1 .. Len(patches) : Matches(patches[p]) })
        PreciseFor(cur, nxt, IsSet(_, _), IsRemove(_, _)) ==
            \A k \in (DOMAIN cur) \cup (DOMAIN nxt) \cup Range(KeyOrder) :
                LET set == k \in DOMAIN nxt
                               /\ (k \notin DOMAIN cur \/ cur[k] # nxt[k])
                    remove == k \in DOMAIN cur /\ k \notin DOMAIN nxt
                IN  /\ CountPatches(LAMBDA patch : IsSet(patch, k))
                           = IF set THEN 1 ELSE 0
                    /\ CountPatches(LAMBDA patch : IsRemove(patch, k))
                           = IF remove THEN 1 ELSE 0
                    /\ \A p \in 1 .. Len(patches) :
                           IsSet(patches[p], k) => patches[p].value = nxt[k]
    IN
    /\ PreciseFor(current.style, next.style,
           LAMBDA patch, k : /\ patch.type = "set-style-property"
                             /\ patch.target = element /\ patch.property = k,
           LAMBDA patch, k : /\ patch.type = "remove-style-property"
                             /\ patch.target = element /\ patch.property = k)
    /\ PreciseFor(current.attrs, next.attrs,
           LAMBDA patch, k : /\ patch.type = "set-attribute"
                             /\ patch.target = element /\ patch.name = k
                             /\ ~patch.isCustom,
           LAMBDA patch, k : /\ patch.type = "remove-attribute"
                             /\ patch.target = element /\ patch.name = k
                             /\ ~patch.isCustom)
    /\ PreciseFor(current.customAttrs, next.customAttrs,
           LAMBDA patch, k : /\ patch.type = "set-attribute"
                             /\ patch.target = element /\ patch.name = k
                             /\ patch.isCustom,
           LAMBDA patch, k : /\ patch.type = "remove-attribute"
                             /\ patch.target = element /\ patch.name = k
                             /\ patch.isCustom)
    /\ PreciseFor(current.dataset, next.dataset,
           LAMBDA patch, k : /\ patch.type = "set-data-attribute"
                             /\ patch.target = element /\ patch.name = k,
           LAMBDA patch, k : /\ patch.type = "remove-data-attribute"
                             /\ patch.target = element /\ patch.name = k)
    /\ PreciseFor(current.properties, next.properties,
           LAMBDA patch, k : /\ patch.type = "set-property"
                             /\ patch.target = element /\ patch.key = k,
           LAMBDA patch, k : /\ patch.type = "delete-property"
                             /\ patch.target = element /\ patch.key = k)

\* C10: for the style, the attributes, the data attributes, the properties
\* and the custom attributes of an element updated in place, the diff has
\* exactly one set patch per key added or changed, exactly one remove patch
\* per key removed and no patch for a key whose value stays.
C10_PropertyPatchesPrecise ==
    Calculated =>
        \A q \in 1 .. Len(Top.patches) :
            (Top.patches[q].type = "update-node"
                 /\ IsElement(heap[Top.patches[q].node])) =>
                PrecisePatches(Top.patches, Top.patches[q].node,
                               Top.patches[q].prevDescription,
                               Top.patches[q].description)

\* The style {color} becomes {color, width} with the same color: the one
\* style patch sets the width.
C10_Witness ==
    /\ Calculated
    /\ \E q \in 1 .. Len(Top.patches) :
          /\ Top.patches[q].type = "update-node"
          /\ IsElement(heap[Top.patches[q].node])
          /\ DOMAIN Top.patches[q].prevDescription.style = {"color"}
          /\ DOMAIN Top.patches[q].description.style = {"color", "width"}
          /\ Top.patches[q].prevDescription.style["color"]
                 = Top.patches[q].description.style["color"]
          /\ Cardinality({ p \in 1 .. Len(Top.patches) :
                 Top.patches[p].type \in {"set-style-property",
                                          "remove-style-property"} }) = 1
          /\ \E p \in 1 .. Len(Top.patches) :
                /\ Top.patches[p].type = "set-style-property"
                /\ Top.patches[p].property = "width"
(***************************************************************************)
(* Replacement of incompatible nodes.                                      *)
(***************************************************************************)
\* The nodes of a batch just calculated that the diff aligns with a next
\* description: the child of an updated component with what the component
\* renders next, and a child of an updated element with the description of
\* the same key or, for two children without a key, of the same index.
AlignedInComponent(patches) ==
    { [node |-> heap[patches[q].node].child,
       description |-> RendererRender(patches[q].description.component,
                                      patches[q].description.props),
       parent |-> patches[q].node] :
          q \in { q \in 1 .. Len(patches) :
                      /\ patches[q].type = "update-node"
                      /\ IsComponent(heap[patches[q].node])
                      /\ patches[q].description.type = "component"
                      /\ heap[patches[q].node].child # NoNode } }

AlignedInElement(patches) ==
    UNION { { [node |-> heap[patches[q].node].children[ij[1]],
               description |-> patches[q].description.children[ij[2]],
               parent |-> patches[q].node] :
                  ij \in { ij \in (1 .. Len(heap[patches[q].node].children))
                                    \X (1 .. Len(patches[q].description.children)) :
                              KeyOrIndex(heap[heap[patches[q].node].children[ij[1]]]
                                             .description.key, ij[1] - 1)
                                = KeyOrIndex(patches[q].description
                                                 .children[ij[2]].key, ij[2] - 1) } } :
              q \in { q \in 1 .. Len(patches) :
                          /\ patches[q].type = "update-node"
                          /\ IsElement(heap[patches[q].node])
                          /\ patches[q].description.type = "element" } }

Aligned(patches) ==
    { pair \in AlignedInComponent(patches) \cup AlignedInElement(patches) :
          ~IsNull(pair.description) }

IsReplaceOf(patch, pair) ==
    /\ patch.type \in {"replace-child", "replace-child-node"}
    /\ patch.child = pair.node
    /\ patch.parent = pair.parent

\* The subtree under node id is the one createFromDescription builds.
IsNewSubtree(frame, id, description, parent) ==
    LET Built(made) ==
            VirtualTree(heap, id, parent)
                = VirtualTree(made.nodes, made.id, parent)
    IN  /\ id \notin frame.before
        /\ Built(createFromDescription(<<>>, description, parent))

ReplacedWhole(frame, pair) ==
    /\ Cardinality({ p \in 1 .. Len(frame.patches) :
                         IsReplaceOf(frame.patches[p], pair) }) = 1
    /\ \A p \in 1 .. Len(frame.patches) :
          /\ IsReplaceOf(frame.patches[p], pair) =>
                 IsNewSubtree(frame, frame.patches[p].node, pair.description,
                              pair.parent)
          /\ Subject(frame.patches[p]) \notin Reach(heap, pair.node)

\* C11: a node aligned with a description it is not compatible with gets
\* exactly one replace patch, with a subtree newly built from the
\* description, and no patch for the node or for a node under it.
C11_IncompatibleIsReplaced ==
    (Calculated /\ ~crashed) =>
        \A pair \in Aligned(Top.patches) :
            ~IsCompatible(heap[pair.node].description, pair.description) =>
                ReplacedWhole(Top, pair)

\* A keyed child of an element is aligned with a description of its key
\* that it is not compatible with, and is replaced.
C11_Witness ==
    /\ Calculated
    /\ ~crashed
    /\ \E pair \in Aligned(Top.patches) :
          /\ Truthy(pair.description.key)
          /\ IsElement(heap[pair.parent])
          /\ ~IsCompatible(heap[pair.node].description, pair.description)
          /\ ReplacedWhole(Top, pair)

(***************************************************************************)
(* Listeners.                                                              *)
(***************************************************************************)
\* The function a listener stands for: the source of a wrapper, and the
\* function itself when it is no wrapper.
OriginalIdentity(listener) ==
    [source |-> listener.source,
     id |-> IF listener.source = "" THEN listener.id ELSE 0]

ListenerPatches(patches, type, element, name, isCustom) ==
    { p \in 1 .. Len(patches) :
          /\ patches[p].type = type
          /\ patches[p].target = element
          /\ patches[p].name = name
          /\ patches[p].isCustom = isCustom }

\* The listener patches of one element for one of its two listener maps.
ListenersByIdentity(patches, element, current, next, isCustom) ==
    \A k \in (DOMAIN current) \cup (DOMAIN next) :
        LET both == k \in DOMAIN current /\ k \in DOMAIN next
            differ == both /\ OriginalIdentity(current[k])
                                  # OriginalIdentity(next[k])
            added == ListenerPatches(patches, "add-listener", element, k,
                                     isCustom)
            removed == ListenerPatches(patches, "remove-listener", element, k,
                                       isCustom)
            replaced == ListenerPatches(patches, "replace-listener", element,
                                        k, isCustom)
        IN  /\ Cardinality(replaced) = IF differ THEN 1 ELSE 0
            /\ \A p \in replaced : /\ patches[p].removed = current[k]
                                   /\ patches[p].added = next[k]
            /\ Cardinality(added) = IF k \notin DOMAIN current THEN 1 ELSE 0
            /\ Cardinality(removed) = IF k \notin DOMAIN next THEN 1 ELSE 0

\* C12: for a listener of an element updated in place, the diff emits no
\* patch when the current and the next function are wrappers of the same
\* source, and one replace-listener patch exactly when both are present and
\* stand for different functions.
C12_ListenersByIdentity ==
    Calculated =>
        \A q \in 1 .. Len(Top.patches) :
            (Top.patches[q].type = "update-node"
                 /\ IsElement(heap[Top.patches[q].node])) =>
                /\ ListenersByIdentity(Top.patches, Top.patches[q].node,
                       Top.patches[q].prevDescription.listeners,
                       Top.patches[q].description.listeners, FALSE)
                /\ ListenersByIdentity(Top.patches, Top.patches[q].node,
                       Top.patches[q].prevDescription.customListeners,
                       Top.patches[q].description.customListeners, TRUE)

\* The click listener of an element is another wrapper of the same method
\* and gets no patch, while its custom listener, another function, is
\* replaced.
C12_Witness ==
    /\ Calculated
    /\ \E q \in 1 .. Len(Top.patches) :
          LET patch == Top.patches[q]
          IN  /\ patch.type = "update-node"
              /\ IsElement(heap[patch.node])
              /\ "onClick" \in DOMAIN patch.prevDescription.listeners
              /\ "onClick" \in DOMAIN patch.description.listeners
              /\ patch.prevDescription.listeners["onClick"]
                     # patch.description.listeners["onClick"]
              /\ patch.prevDescription.listeners["onClick"].source
                     = patch.description.listeners["onClick"].source
              /\ \A type \in {"add-listener", "remove-listener",
                              "replace-listener"} :
                     ListenerPatches(Top.patches, type, patch.node, "onClick",
                                     FALSE) = {}
              /\ ListenerPatches(Top.patches, "replace-listener", patch.node,
                                 "my-event", TRUE) # {}

(***************************************************************************)
(* The notifications of one node.                                          *)
(***************************************************************************)
\* The notification that may come right after another one for the same
\* node: Created, Attached, any number of onPropsReceived and onUpdated
\* pairs, Detached, Destroyed, and nothing after Destroyed.
Follows(hook, next) ==
    CASE hook = "onCreated" -> next = "onAttached"
      [] hook = "onAttached" -> next \in {"onPropsReceived", "onDetached"}
      [] hook = "onPropsReceived" -> next = "onUpdated"
      [] hook = "onUpdated" -> next \in {"onPropsReceived", "onDetached"}
      [] hook = "onDetached" -> next = "onDestroyed"
      [] OTHER -> FALSE

\* The hooks a batch has called on node id so far, in the order of the calls.
HooksOf(frame, id) ==
    SelectSeq(AllCalls(frame),
              LAMBDA call : call.node = id /\ call.hook # "destroy")

\* C13: the notifications of every component other than the root follow
\* Created, Attached, updates (onPropsReceived then onUpdated), Detached,
\* Destroyed, and none comes after Destroyed; here for the notifications of
\* one batch.
C13_LifecycleOrder ==
    \A f \in 1 .. Len(stack) :
        \A id \in 1 .. Len(heap) :
            IsComponent(heap[id]) /\ ~IsRoot(heap[id]) =>
                \A i \in 1 .. Len(HooksOf(stack[f], id)) - 1 :
                    Follows(HooksOf(stack[f], id)[i].hook,
                            HooksOf(stack[f], id)[i + 1].hook)
(***************************************************************************)
(* Child operations called with any node: a patch of the tree-shape family *)
(* is made from nodes of the tree, whether or not its child occupies the   *)
(* slot or the list of its parent, and is applied.                         *)
(***************************************************************************)
ChildIndexes(nodes, parent) == 0 .. (Len(nodes[parent].children) - 1)

\* The patches on the child slot of component `parent`.
SlotPatches(nodes, parent) ==
    LET others == (1 .. Len(nodes)) \ {RootNode, parent}
    IN  { PatchAppendChild(child, parent) : child \in others }
            \cup { PatchRemoveChild(child, parent) : child \in others }
            \cup { PatchReplaceChild(pair[1], pair[2], parent) :
                       pair \in { pair \in others \X others :
                                      pair[1] # pair[2] } }

\* The patches on the child list of element `parent`.
ListPatches(nodes, parent) ==
    LET others == (1 .. Len(nodes)) \ {RootNode, parent}
        indexes == ChildIndexes(nodes, parent)
    IN  { PatchMoveChildNode(child, move[1], move[2], parent) :
              child \in others, move \in indexes \X indexes }
            \cup { PatchRemoveChildNode(child, at, parent) :
                       child \in others, at \in indexes }
            \cup { PatchReplaceChildNode(pair[1], pair[2], parent) :
                       pair \in { pair \in others \X others :
                                      pair[1] # pair[2] } }

ChildOperations(nodes) ==
    UNION { IF IsElement(nodes[parent]) THEN ListPatches(nodes, parent)
            ELSE SlotPatches(nodes, parent) : parent \in 1 .. Len(nodes) }

\* The node the patch names does not occupy the slot or the list.
IsStale(nodes, patch) ==
    CASE patch.type = "append-child" ->
             nodes[patch.parent].child \notin {NoNode, patch.child}
      [] patch.type \in {"remove-child", "replace-child"} ->
             nodes[patch.parent].child # patch.child
      [] patch.type = "move-child-node" ->
             nodes[patch.parent].children[patch.from + 1] # patch.node
      [] patch.type = "remove-child-node" ->
             patch.node \notin Range(nodes[patch.parent].children)
      [] patch.type = "replace-child-node" ->
             patch.child \notin Range(nodes[patch.parent].children)
      [] OTHER -> FALSE

\* patch.apply() on a patch made outside a diff; what the root had before
\* the call is kept.
ChildOperation ==
    /\ Idle
    /\ state # NullState
    /\ hops = 0
    /\ \E patch \in ChildOperations(heap) :
          LET applied == Apply(World(heap, containerNodes), patch)
          IN  /\ heap' = applied.nodes
              /\ containerNodes' = applied.container
              /\ crashed' = applied.thrown
              /\ origin' = [state |-> state, patch |-> patch, nodes |-> heap,
                            container |-> containerNodes]
    /\ hops' = 1
    /\ UNCHANGED <<state, stack, reentered, recVars, engine, ready, utilVars>>

\* The commands sent before the call.
SetStateBefore == hops = 0 /\ SetState

NextChildOperation ==
    \/ RootInit
    \/ SetStateBefore
    \/ ChildOperation
    \/ BeforeHook
    \/ ApplyPatch
    \/ AfterHook
    \/ Finish

SpecChildOperation == Init /\ [][NextChildOperation]_vars

\* C14: a child operation that is passed a node which does not occupy the
\* slot or the list of the parent throws, and leaves every node (child slot,
\* child list, placeholder, parent links) and the DOM as they were.
C14_StaleReferenceRefused ==
    (hops = 1 /\ IsStale(origin.nodes, origin.patch)) =>
        /\ crashed
        /\ heap = origin.nodes
        /\ containerNodes = origin.container

(***************************************************************************)
(* The child slot of a component.                                          *)
(***************************************************************************)
\* C15: every component and every root has either a child or a placeholder
\* comment of its own, never both and never neither, after its construction
\* and after every append, replace and remove of a child.
C15_ChildOrPlaceholder ==
    \A id \in 1 .. Len(heap) :
        IsComponent(heap[id]) => (heap[id].child # NoNode <=> ~heap[id].comment)

\* The child of a component has been removed and its comment is back.
C15_Witness ==
    /\ hops = 1
    /\ ~crashed
    /\ origin.patch.type = "remove-child"
    /\ origin.nodes[origin.patch.parent].child # NoNode
    /\ ~origin.nodes[origin.patch.parent].comment
    /\ heap[origin.patch.parent].child = NoNode
    /\ heap[origin.patch.parent].comment
(***************************************************************************)
(* Toolkit.render (src/unnamed/part_006, 4062-4069): the root is mounted,  *)
(* Root.init sends commands.init and marks the root as ready, and render   *)
(* returns the root once root.ready has resolved.                          *)
(***************************************************************************)
\* `await root.ready; return root;`
RenderReturns ==
    /\ ready = "resolved"
    /\ ready' = "returned"
    /\ UNCHANGED <<state, heap, containerNodes, stack, reentered, crashed,
                   recVars, engine, tripVars, utilVars>>

NextRender ==
    \/ RootInit
    \/ HookDispatch
    \/ BeforeHook
    \/ ApplyPatch
    \/ AfterHook
    \/ Finish
    \/ RenderReturns

SpecRender == Init /\ [][NextRender]_vars

\* The step that marks the root as ready ends the batch of commands.init:
\* no other dispatch is in progress, no exception was thrown, the batch
\* begins with the init-root-component patch and every patch of it has had
\* its before-hook, its application and its after-hook.
ResolvesAfterFirstBatch ==
    /\ ready' = "resolved"
    /\ ~crashed
    /\ Len(stack) = 1
    /\ stack' = <<>>
    /\ Top.from = NullState
    /\ Top.phase = "done"
    /\ Top.patches # <<>>
    /\ Top.patches[1].type = "init-root-component"
    /\ Len(Top.steps) = 3 * Len(Top.patches)
    /\ state' # NullState

C17_AppliesAsResolved ==
    (stack # <<>> /\ ~crashed /\ Top.phase = "apply") =>
        Resolved(World(heap, containerNodes), Top.patches[Top.i])
            = Top.resolved[Top.i]

(***************************************************************************)
(* A lifecycle hook that raises.  Lifecycle calls the hooks of the         *)
(* application without a try block (1932-2070), and neither Diff.apply     *)
(* (1407-1415), Renderer.updateDOM (3038-3068), Root.dispatch (916-920)    *)
(* nor the command dispatcher (1006-1016) catches: the exception leaves    *)
(* every dispatch in progress.                                             *)
(***************************************************************************)
\* The hooks Lifecycle calls for the patch the batch has come to.
HooksAtHand(frame) ==
    IF frame.phase = "before"
    THEN beforePatchApplied(heap, frame.patches[frame.i])
    ELSE afterPatchApplied(heap,
             frame.patches[AfterOrder(Len(frame.patches), frame.i)])

\* One of the hooks called for the patch raises: those before it have run,
\* the batch stays where it was and the exception leaves the dispatch.
HookRaises ==
    /\ stack # <<>>
    /\ ~crashed
    /\ Top.phase \in {"before", "after"}
    /\ \E c \in 1 .. Len(HooksAtHand(Top)) :
           stack' = WithTop([Top EXCEPT
               !.steps = Append(@, Step("raise", Top.i,
                                        SubSeq(HooksAtHand(Top), 1, c)))])
    /\ crashed' = TRUE
    /\ UNCHANGED <<state, heap, containerNodes, reentered, recVars, engine,
                   tripVars, ready, utilVars>>

NextHookRaises ==
    \/ RootInit
    \/ SetState
    \/ HookDispatch
    \/ BeforeHook
    \/ ApplyPatch
    \/ AfterHook
    \/ Finish
    \/ HookRaises

SpecHookRaises == Init /\ [][NextHookRaises]_vars

\* The patches of a batch that have been applied.
AppliedPatches(frame) ==
    { frame.steps[s].index :
          s \in { t \in 1 .. Len(frame.steps) : frame.steps[t].step = "apply" } }

HasRaised ==
    /\ stack # <<>>
    /\ Top.steps # <<>>
    /\ Top.steps[Len(Top.steps)].step = "raise"

\* C18: when a hook has raised, the exception has left the command (no
\* dispatch goes on), and every batch in progress has none of its patches
\* applied, the hook being a before-hook, or all of them, the hook being an
\* after-hook.
C18_HookFailureLeavesNoPartialBatch ==
    HasRaised =>
        /\ crashed
        /\ ~ENABLED NextHookRaises
        /\ Top.phase = "before" => AppliedPatches(Top) = {}
        /\ Top.phase = "after" =>
               AppliedPatches(Top) = 1 .. Len(Top.patches)
        /\ \A f \in 1 .. Len(stack) :
               AppliedPatches(stack[f]) \in {{}, 1 .. Len(stack[f].patches)}

C18_Witness ==
    /\ HasRaised
    /\ Top.phase = "after"
    /\ Len(Top.patches) >= 2
    /\ AppliedPatches(Top) = 1 .. Len(Top.patches)
    /\ Len(stack) = 2
    /\ AppliedPatches(stack[1]) = {}

(***************************************************************************)
(* Commands after a failure.  The dispatcher made by                       *)
(* Root.createCommandsDispatcher (1006-1016) tests only `this.dispatch`,   *)
(* which Root.destroy alone clears; Root.dispatch (916-920) and            *)
(* Renderer.update (3063-3068) keep no record of an exception.             *)
(***************************************************************************)
\* The exception leaves every dispatch in progress and reaches the caller
\* of the command.
Unwind ==
    /\ crashed
    /\ stack # <<>>
    /\ stack' = <<>>
    /\ UNCHANGED <<state, heap, containerNodes, reentered, crashed, recVars,
                   engine, tripVars, ready, utilVars>>

\* The states sent after a failure.
LaterStates == HookStates \cup { AppState("row", NoLook, <<>>) }

\* commands.setState(state) on a root whose last command has failed: the
\* tree, the DOM and the state it meets are kept.
CommandAfterFailure ==
    /\ crashed
    /\ stack = <<>>
    /\ hops = 0
    /\ state # NullState
    /\ \E nextState \in LaterStates : Begin(nextState)
    /\ origin' = [state |-> state, nodes |-> heap, container |-> containerNodes]
    /\ hops' = 1
    /\ UNCHANGED <<reentered, recVars, engine, ready, utilVars>>

HookRaisesBefore == hops = 0 /\ HookRaises

NextAfterFailure ==
    \/ RootInit
    \/ SetStateBefore
    \/ BeforeHook
    \/ ApplyPatch
    \/ AfterHook
    \/ Finish
    \/ HookRaisesBefore
    \/ Unwind
    \/ CommandAfterFailure

SpecAfterFailure == Init /\ [][NextAfterFailure]_vars

\* C19: a command sent to a root after one of its commands has failed
\* starts no diff, applies no patch and changes no state.
C19_NoCommandAfterFailure ==
    hops = 1 =>
        /\ stack = <<>>
        /\ state = origin.state
        /\ heap = origin.nodes
        /\ containerNodes = origin.container

(***************************************************************************)
(* A root nested in the tree of another: the mounted root renders a        *)
(* section with a Panel, a root class with a custom element, and a list    *)
(* of rows.  The toolkit runs in debug mode, so that the diff refuses      *)
(* sibling keys that repeat (1735-1746).                                   *)
(***************************************************************************)
\* The roots nested in the tree that have no state yet.
Uninitialised ==
    { id \in Reach(heap, RootNode) :
          HasCustomElement(heap[id]) /\ heap[id].state = NullState }

\* Root.init of the mounted root, for a state with a panel.
PanelInit ==
    /\ Idle
    /\ state = NullState
    /\ \E nextState \in PanelStates : Begin(nextState)
    /\ UNCHANGED <<reentered, recVars, engine, tripVars, ready, utilVars>>

\* Root.init of a nested root, called by the constructor of its custom
\* element and resumed once the command that made the root has returned:
\* commands.init(props).
SubRootInit ==
    /\ Idle
    /\ \E root \in Uninitialised :
           LET Initialised(done) ==
                   /\ heap' = done.nodes
                   /\ crashed' = done.thrown
           IN  Initialised(SubRootDispatch(heap, root, heap[root].props))
    /\ UNCHANGED <<state, containerNodes, stack, reentered, recVars, engine,
                   tripVars, ready, utilVars>>

\* commands.setState(state) on the mounted root, once the nested roots are
\* initialised.  The tree, the DOM and the state it meets are kept.
PanelSetState ==
    /\ Idle
    /\ state # NullState
    /\ Uninitialised = {}
    /\ \E nextState \in PanelStates : Begin(nextState)
    /\ origin' = [state |-> state, nodes |-> heap, container |-> containerNodes]
    /\ UNCHANGED <<reentered, recVars, engine, hops, ready, utilVars>>

NextSubRoot ==
    \/ PanelInit
    \/ SubRootInit
    \/ PanelSetState
    \/ BeforeHook
    \/ ApplyPatch
    \/ AfterHook
    \/ Finish

SpecSubRoot == Init /\ [][NextSubRoot]_vars

\* The diff of a setState command has thrown: the command has left with
\* no step of its batch taken.
DiffHasThrown ==
    /\ stack # <<>>
    /\ crashed
    /\ Top.steps = <<>>
    /\ Top.from # NullState

\* C20: when the diff of a command throws for a structural error, no hook
\* has fired, and the nodes of the tree of the root, those of the roots
\* nested in it included, the DOM and root.state are what they were before
\* the command.
C20_StructuralErrorLeavesAllUnchanged ==
    DiffHasThrown =>
        /\ Top.fired = <<>>
        /\ state = origin.state
        /\ containerNodes = origin.container
        /\ SubSeq(heap, 1, Len(origin.nodes)) = origin.nodes

(***************************************************************************)
(* Template.describe called once with a template of at most MaxItems       *)
(* items.                                                                  *)
(***************************************************************************)
MaxItems == 4      \* longest template given to Template.describe

\* The items: text of every kind, the falsy values, props, a component
\* class, values of no use, and nodes that are empty, well formed, headed
\* by a number or mixing text and a node themselves.
PlainItems ==
    { Value("string", "div"), Value("number", "0"), TrueValue, NullValue,
      FalseValue, Props([class |-> "c"]), Value("component", "Row"),
      UndefinedValue, Value("unknown", "date") }

NodeItems ==
    { Node(<<>>),
      Node(<<Value("string", "span")>>),
      Node(<<Value("string", "span"), Value("string", "x")>>),
      Node(<<Value("number", "0")>>),
      Node(<<Value("component", "Row")>>),
      Node(<<Value("string", "span"), Value("string", "x"),
             Node(<<Value("string", "b")>>)>>) }

Templates ==
    { NullValue, FalseValue, UndefinedValue, Value("string", "div") }
        \cup { Node(items) :
                   items \in UNION { [1 .. n -> PlainItems \cup NodeItems] :
                                         n \in 0 .. MaxItems } }

InitTemplate ==
    /\ templateArg \in Templates
    /\ describeResult = NotDescribed
    /\ RootIdle
    /\ ThrottleIdle
    /\ ResolverIdle
    /\ LoaderIdle
    /\ PluginsIdle

\* One call of Template.describe.
Describe ==
    /\ ~describeResult.done
    /\ describeResult' = TemplateDescribe(templateArg)
    /\ UNCHANGED <<templateArg, recVars, engine, treeVars, tripVars, lifeVars,
                   throttleVars, resolverVars, loaderVars, pluginVars>>

NextTemplate == Describe

SpecTemplate == InitTemplate /\ [][NextTemplate]_vars

\* A description and those under it have text or children, never both.
RECURSIVE TextOrChildren(_)
TextOrChildren(description) ==
    \/ IsNull(description)
    \/ /\ description.text = NoText \/ description.children = <<>>
       /\ \A i \in 1 .. Len(description.children) :
              TextOrChildren(description.children[i])

IsTextItem(item) == item.type \in {"string", "number"} \/ item = TrueValue

\* The items of a template after its head (and not its props).
TextAfterHead(items) == \E i \in 2 .. Len(items) : IsTextItem(items[i])

NodeAfterHead(items) == \E i \in 2 .. Len(items) : items[i].type = "node"

IsMalformed(items) ==
    \/ items[1].type \notin {"string", "component", "function", "symbol"}
    \/ TextAfterHead(items) /\ NodeAfterHead(items)
    \/ /\ items[1].type \in {"component", "function", "symbol"}
       /\ TextAfterHead(items)

\* C21: a description that Template.describe returns has text or children
\* and never both, at every level; a template with an unrecognized head,
\* with text and nodes in either order, or with text for a component makes
\* the call throw, and a call that throws returns no description.
C21_TextOrChildrenNeverBoth ==
    describeResult.done =>
        /\ describeResult.thrown => describeResult.description = NullDescription
        /\ ~describeResult.thrown => TextOrChildren(describeResult.description)
        /\ (/\ templateArg.type = "node"
            /\ Len(templateArg.items) > 0
            /\ IsMalformed(templateArg.items)) => describeResult.thrown

C21_Witness ==
    /\ describeResult.thrown
    /\ describeResult.error = "Text elements cannot have child nodes!"
    /\ templateArg = Node(<<Value("string", "div"), Props([class |-> "c"]),
                           Value("string", "div"),
                           Node(<<Value("string", "span")>>)>>)

(***************************************************************************)
(* A throttled function called at any times while the clock advances and   *)
(* the tasks given to setTimeout run, on time or late.                     *)
(***************************************************************************)
MaxWait == 3       \* longest wait given to throttle
MaxTime == 7       \* milliseconds the clock advances
MaxCalls == 4      \* calls of the throttled function

\* Date.now() when the function is throttled: the time since 1970, longer
\* than any wait in use.
Epoch == MaxWait + 1

InitThrottle ==
    /\ clock = Epoch
    /\ throttled \in { Throttle(wait, delayFirstEvent) :
                           wait \in 0 .. MaxWait, delayFirstEvent \in BOOLEAN }
    /\ timers = {}
    /\ throttledCalls = <<>>
    /\ timestamps = <<>>
    /\ RootIdle
    /\ TemplateIdle
    /\ ResolverIdle
    /\ LoaderIdle
    /\ PluginsIdle

otherThanThrottle ==
    <<recVars, engine, treeVars, tripVars, lifeVars, templateVars, resolverVars,
      loaderVars, pluginVars>>

\* A millisecond passes.
Tick ==
    /\ clock < Epoch + MaxTime
    /\ clock' = clock + 1
    /\ UNCHANGED <<throttled, timers, throttledCalls, timestamps,
                   otherThanThrottle>>

\* throttled(...args): the arguments are named by the number of the call.
ThrottledCall ==
    /\ Len(throttledCalls) < MaxCalls
    /\ throttledCalls' = Append(throttledCalls, clock)
    /\ LET args == Len(throttledCalls) + 1
           elapsed == clock - throttled.lastTimestamp
       IN  IF throttled.taskId # NoTask
           THEN /\ throttled' = [throttled EXCEPT !.params = args]
                /\ UNCHANGED <<timers, timestamps>>
           ELSE IF IsElapsed(elapsed, throttled.wait)
           THEN IF InvokesAtOnce(throttled.delayFirstEvent)
                THEN /\ throttled' = [throttled EXCEPT !.lastTimestamp = clock]
                     /\ timestamps' =
                            Append(timestamps, Invocation(clock, TRUE, args))
                     /\ UNCHANGED timers
                ELSE /\ timers' = SetTimeout(timers, clock, throttled.wait)
                     /\ throttled' =
                            Scheduled([throttled EXCEPT
                                          !.lastTimestamp = clock],
                                      timers, args)
                     /\ UNCHANGED timestamps
           ELSE /\ timers' = SetTimeout(timers, clock,
                                 TaskDelay(throttled.wait, elapsed))
                /\ throttled' = Scheduled(throttled, timers, args)
                /\ UNCHANGED timestamps
    /\ UNCHANGED <<clock, otherThanThrottle>>

\* The task scheduleTask gave to setTimeout runs.
TaskRuns ==
    /\ \E task \in timers :
           /\ clock >= task.due
           /\ timers' = timers \ {task}
           /\ throttled' = [throttled EXCEPT !.taskId = NoTask,
                                             !.lastTimestamp = clock]
           /\ timestamps' =
                  Append(timestamps,
                         Invocation(clock, FALSE, throttled.params))
    /\ UNCHANGED <<clock, throttledCalls, otherThanThrottle>>

NextThrottle == Tick \/ ThrottledCall \/ TaskRuns

SpecThrottle == InitThrottle /\ [][NextThrottle]_vars

\* The smallest number of waits that cover a time.
CeilDiv(time, wait) == (time + wait - 1) \div wait

\* C22: any two consecutive invocations of fn are at least `wait` apart,
\* so that a window of length T holds at most ceil(T / wait) + 1 of them.
C22_InvocationsAWaitApart ==
    /\ \A i \in 2 .. Len(timestamps) :
           timestamps[i].at - timestamps[i - 1].at >= throttled.wait
    /\ throttled.wait > 0 =>
           \A i \in 1 .. Len(timestamps) : \A j \in i .. Len(timestamps) :
               j - i + 1 <=
                   CeilDiv(timestamps[j].at - timestamps[i].at,
                           throttled.wait) + 1

C22_Witness ==
    /\ throttled.wait = MaxWait
    /\ ~throttled.delayFirstEvent
    /\ Len(timestamps) = 3
    /\ timestamps[1].sync
    /\ ~timestamps[2].sync
    /\ timestamps[3].at - timestamps[1].at = 2 * MaxWait

\* C23: with delayFirstEvent fn is never invoked inside a call of the
\* throttled function, and not before `wait` has passed since the first
\* call.
C23_FirstEventDelayed ==
    throttled.delayFirstEvent =>
        /\ \A i \in 1 .. Len(timestamps) : ~timestamps[i].sync
        /\ Len(timestamps) > 0 =>
               timestamps[1].at >= throttledCalls[1] + throttled.wait

C23_Witness ==
    /\ throttled.delayFirstEvent
    /\ throttled.wait = MaxWait
    /\ Len(timestamps) = 2
    /\ timestamps[1].at = throttledCalls[1] + MaxWait

\* Every two successive calls are at least `wait` apart.
Infrequent(times, wait) ==
    \A i \in 2 .. Len(times) : times[i] - times[i - 1] >= wait

\* C24: without delayFirstEvent, calls that are at least `wait` apart each
\* invoke fn once, at once and with their own arguments: as many
\* invocations as calls.
C24_InfrequentCallsAllInvoke ==
    (~throttled.delayFirstEvent /\ Infrequent(throttledCalls, throttled.wait))
        => /\ Len(timestamps) = Len(throttledCalls)
           /\ \A i \in 1 .. Len(timestamps) :
                  timestamps[i] = Invocation(throttledCalls[i], TRUE, i)

C24_Witness ==
    /\ ~throttled.delayFirstEvent
    /\ throttled.wait = MaxWait
    /\ Len(throttledCalls) = 3
    /\ throttledCalls[2] = throttledCalls[1] + MaxWait
    /\ throttledCalls[3] > throttledCalls[2] + MaxWait
    /\ Len(timestamps) = 3

(***************************************************************************)
(* References resolved again and again while modules are defined.          *)
(***************************************************************************)
MaxResolutions == 4    \* calls of resolveComponentClass

ModuleIds == {"a", "b"}

References ==
    { Reference("component", "Row"), Reference("function", "f"),
      Reference("function", "g"), Reference("symbol", "a"),
      Reference("symbol", "b"), Reference("props", "none") }

\* What loader.define is given: two component classes and a plain object.
Definitions ==
    { ComponentClass("Row"), ComponentClass("Cell"),
      Exported("settings", FALSE) }

InitResolver ==
    /\ pureComponentClassRegistry = <<>>
    /\ resolutions = <<>>
    /\ loader = NewLoader
    /\ preloads = <<>>
    /\ scripts = <<>>
    /\ RootIdle
    /\ TemplateIdle
    /\ ThrottleIdle
    /\ PluginsIdle

otherThanResolver ==
    <<recVars, engine, treeVars, tripVars, lifeVars, templateVars, throttleVars,
      preloads, scripts, pluginVars>>

\* loader.define(id, exported)
Define ==
    /\ \E id \in ModuleIds : \E exported \in Definitions :
           loader' = define(loader, id, exported)
    /\ UNCHANGED <<resolverVars, otherThanResolver>>

\* opr.Toolkit.resolveComponentClass(component, type)
Resolve ==
    /\ Len(resolutions) < MaxResolutions
    /\ \E reference \in References :
           LET With(resolved) ==
                   /\ resolutions' = Append(resolutions, resolved.resolution)
                   /\ pureComponentClassRegistry' = resolved.registry
           IN  With(resolveComponentClass(reference,
                        pureComponentClassRegistry, loader,
                        Len(resolutions) + 1))
    /\ UNCHANGED <<loader, otherThanResolver>>

NextResolver == Define \/ Resolve

SpecResolver == InitResolver /\ [][NextResolver]_vars

\* The classes resolveComponentClass has returned for a reference.
ClassesOf(reference) ==
    { resolutions[i].class :
          i \in { j \in 1 .. Len(resolutions) :
                      /\ resolutions[j].reference = reference
                      /\ ~resolutions[j].thrown } }

\* C25: a reference resolves to the same class every time, no render
\* function has more than one class, and the descriptions of a reference
\* made from two resolutions are compatible.
C25_ResolvesToTheSameClass ==
    \A reference \in References :
        /\ Cardinality(ClassesOf(reference)) <= 1
        /\ \A a \in ClassesOf(reference) : \A b \in ClassesOf(reference) :
               IsCompatible(ComponentDescription(a), ComponentDescription(b))

C25_Witness ==
    /\ Len(resolutions) = 4
    /\ resolutions[1].reference = Reference("function", "f")
    /\ resolutions[2].reference = Reference("symbol", "a")
    /\ resolutions[3].reference = Reference("function", "f")
    /\ resolutions[4].reference = Reference("symbol", "a")
    /\ \A i \in 1 .. 4 : ~resolutions[i].thrown
    /\ resolutions[1].class = resolutions[3].class
    /\ resolutions[2].class = resolutions[4].class

(***************************************************************************)
(* Calls of Loader.preload, one after another or while others are in       *)
(* flight; every script that is asked for arrives.                         *)
(***************************************************************************)
MaxPreloads == 3       \* calls of Loader.preload

LoaderIds == {"a", "b", "c"}

\* A script file: the value it exports and the symbols it declares.
Script(name, symbols) ==
    [exports |-> ComponentClass(name), symbols |-> symbols]

\* `a` declares the symbol of `b`; `b` declares nothing, or `a` in turn.
ScriptFiles ==
    { [id \in LoaderIds |->
           CASE id = "a" -> Script("A", <<"b">>)
             [] id = "b" -> Script("B", back)
             [] OTHER -> Script("C", <<>>)] : back \in {<<>>, <<"a">>} }

InitLoader ==
    /\ loader = NewLoader
    /\ preloads = <<>>
    /\ scripts \in ScriptFiles
    /\ RootIdle
    /\ TemplateIdle
    /\ ThrottleIdle
    /\ ResolverIdle
    /\ PluginsIdle

otherThanLoader ==
    <<recVars, engine, treeVars, tripVars, lifeVars, templateVars, throttleVars,
      resolverVars, pluginVars>>

\* loader.preload(id) up to its first await: of the promise of a load of
\* the id, or of loader.ready in waitForLoader.
Preload ==
    /\ Len(preloads) < MaxPreloads
    /\ \E id \in LoaderIds :
           IF Has(loader.loadPromises, id)
           THEN /\ preloads' =
                       Append(preloads,
                              PreloadCall(id, "joined", NoPromise, NoPromise,
                                          <<>>))
                /\ UNCHANGED loader
           ELSE /\ preloads' =
                       Append(preloads,
                              PreloadCall(id, "waiting", loader.ready,
                                          loader.promises, <<>>))
                /\ loader' = [loader EXCEPT !.ready = loader.promises,
                                            !.promises = @ + 1]
    /\ UNCHANGED <<scripts, otherThanLoader>>

\* The call has its load promise fulfilled: done() and return.
Fulfilled(L, call) ==
    Released([L EXCEPT !.loadPromises = MapSet(@, call.id, "fulfilled")],
             call.done)

\* The call goes on with loadWithDependencies, until a script is awaited
\* or the load is over.
GoesOn(i, going) ==
    IF going.frames = <<>>
    THEN /\ loader' = Fulfilled(going.loader, preloads[i])
         /\ preloads' = [preloads EXCEPT ![i].pc = "returned",
                                         ![i].frames = <<>>]
    ELSE /\ loader' = [going.loader EXCEPT
                          !.loadPromises = MapSet(@, preloads[i].id, "pending")]
         /\ preloads' = [preloads EXCEPT ![i].pc = "loading",
                                         ![i].frames = going.frames]

\* loader.ready is resolved: the call returns the exports of a module that
\* is loaded, or loads the module with its dependencies.
LoaderIsReady ==
    /\ \E i \in 1 .. Len(preloads) :
           /\ preloads[i].pc = "waiting"
           /\ preloads[i].awaits \in loader.resolved
           /\ IF /\ Has(loader.registry, preloads[i].id)
                 /\ loader.registry[preloads[i].id].isLoaded
              THEN /\ preloads' = [preloads EXCEPT ![i].pc = "returned"]
                   /\ UNCHANGED loader
              ELSE GoesOn(i, loadWithDependencies(loader, <<>>,
                                                  preloads[i].id))
    /\ UNCHANGED <<scripts, otherThanLoader>>

\* The script a call awaits has run and its load event is handled.
ScriptLoads ==
    /\ \E i \in 1 .. Len(preloads) :
           /\ preloads[i].pc = "loading"
           /\ LET frames == preloads[i].frames
                  top == frames[Len(frames)]
              IN  GoesOn(i, Continue(
                                LoadEnded(loader, top.id, scripts[top.id]),
                                [frames EXCEPT
                                    ![Len(frames)].phase = "dependencies"]))
    /\ UNCHANGED <<scripts, otherThanLoader>>

\* The load promise a call returned is fulfilled.
LoadPromiseFulfilled ==
    /\ \E i \in 1 .. Len(preloads) :
           /\ preloads[i].pc = "joined"
           /\ loader.loadPromises[preloads[i].id] = "fulfilled"
           /\ preloads' = [preloads EXCEPT ![i].pc = "returned"]
    /\ UNCHANGED <<loader, scripts, otherThanLoader>>

NextLoader == Preload \/ LoaderIsReady \/ ScriptLoads \/ LoadPromiseFulfilled

SpecLoader == InitLoader /\ [][NextLoader]_vars

\* C26: every call of preload that waited for the loader has called its
\* `done` when it returns, so that the calls after it go on.
C26_DoneOnEveryReturn ==
    \A i \in 1 .. Len(preloads) :
        (preloads[i].pc = "returned" /\ preloads[i].done # NoPromise)
            => preloads[i].done \in loader.resolved

\* A call that can go on no more: it waits for a promise whose `done`
\* belongs to a call that has returned without calling it.
WaitsForEver(i) ==
    /\ preloads[i].pc = "waiting"
    /\ \E j \in 1 .. Len(preloads) :
           /\ preloads[j].done = preloads[i].awaits
           /\ preloads[j].pc = "returned"
           /\ preloads[j].done \notin loader.resolved

SomeCallWaitsForEver == \E i \in 1 .. Len(preloads) : WaitsForEver(i)

(***************************************************************************)
(* Plugins registered, installed and uninstalled on a root that is         *)
(* updated now and then.                                                   *)
(***************************************************************************)
MaxEvents == 6         \* operations on the plugins and functions run

Manifests ==
    { Plugin("logger", TRUE, TRUE), Plugin("theme", FALSE, TRUE),
      Plugin("tracker", TRUE, FALSE) }

PluginNames == { manifest.name : manifest \in Manifests }

InitPlugins ==
    /\ plugins = NewPlugins
    /\ notified = <<>>
    /\ RootIdle
    /\ TemplateIdle
    /\ ThrottleIdle
    /\ ResolverIdle
    /\ LoaderIdle

otherThanPlugins ==
    <<recVars, engine, treeVars, tripVars, lifeVars, templateVars, throttleVars,
      resolverVars, loaderVars>>

\* plugins.register(manifest), of a name that is not registered.
Register ==
    /\ Len(notified) < MaxEvents
    /\ \E manifest \in Manifests :
           /\ ~isRegistered(plugins.registry, manifest.name)
           /\ plugins' = [plugins EXCEPT
                             !.registry = RegistryAdd(@, manifest)]
           /\ notified' = Append(notified, Event("register", manifest.name))
    /\ UNCHANGED otherThanPlugins

\* plugins.install(plugin), of a registered plugin.
Install ==
    /\ Len(notified) < MaxEvents
    /\ \E k \in 1 .. Len(plugins.registry.plugins) :
           /\ plugins' = PluginsInstall(plugins, plugins.registry.plugins[k])
           /\ notified' =
                  Append(notified,
                         Event("install", plugins.registry.plugins[k].name))
    /\ UNCHANGED otherThanPlugins

\* plugins.uninstall(name): the call, and the uninstall function it runs.
Uninstall ==
    /\ Len(notified) + 1 < MaxEvents
    /\ \E name \in PluginNames :
           /\ plugins' = PluginsUninstall(plugins, name)
           /\ notified' =
                  IF HasUninstall(plugins, name)
                  THEN notified \o <<Event("uninstall", name),
                                     Event("uninstalled", name)>>
                  ELSE Append(notified, Event("uninstall", name))
    /\ UNCHANGED otherThanPlugins

\* plugins.notify('update', update) of Renderer.update.
Notify ==
    /\ Len(notified) + Len(plugins.registry.listeners) <= MaxEvents
    /\ Len(plugins.registry.listeners) > 0
    /\ notified' = notified \o Notifications(plugins.registry)
    /\ UNCHANGED <<plugins, otherThanPlugins>>

NextPlugins == Register \/ Install \/ Uninstall \/ Notify

SpecPlugins == InitPlugins /\ [][NextPlugins]_vars

\* The events of a kind that concern a plugin after event k.
Later(k, type, name) ==
    { j \in k + 1 .. Len(notified) : notified[j] = Event(type, name) }

\* The uninstall function of the plugin is there when event k happens: the
\* plugin was installed before it and not uninstalled since.
InstalledAt(k, name) ==
    \E i \in 1 .. k - 1 :
        /\ notified[i] = Event("install", name)
        /\ \E manifest \in Manifests :
               manifest.name = name /\ manifest.hasInstall
        /\ \A j \in i + 1 .. k - 1 : notified[j] # Event("uninstall", name)

\* C27: once plugins.uninstall(name) has been called the plugin is not
\* registered and not notified of updates (until it is registered again),
\* and its uninstall function has run once if there was one, and never
\* again for that installation.
C27_UninstallRemoves ==
    \A k \in 1 .. Len(notified) :
        notified[k].type = "uninstall" =>
            LET name == notified[k].name
            IN  /\ Later(k, "register", name) = {} =>
                       /\ ~isRegistered(plugins.registry, name)
                       /\ Later(k, "update", name) = {}
                /\ InstalledAt(k, name) =>
                       /\ k < Len(notified)
                       /\ notified[k + 1] = Event("uninstalled", name)
                /\ Later(k, "install", name) = {} =>
                       Cardinality(Later(k, "uninstalled", name)) <= 1

(***************************************************************************)
(* The operations calculateMoves returns, one by one, against the list     *)
(* they are made on.                                                       *)
(***************************************************************************)
\* The working list when operation k of the returned list is made.
WorkingList(k) == MakeAll(SubSeq(moves.list, 1, k - 1), source)

Names(list) == [k \in 1 .. Len(list) |-> list[k].name]

\* Removals, then insertions, then moves.
InPhases(names) ==
    \A i \in 1 .. Len(names) : \A j \in i + 1 .. Len(names) :
        /\ names[j] = "remove" => names[i] = "remove"
        /\ names[j] = "insert" => names[i] # "move"

\* Operation k finds what it expects in the working list.
IsValidAt(k) ==
    LET move == moves.list[k]
        working == WorkingList(k)
    IN  CASE move.name = "remove" ->
                 /\ move.at < Len(working)
                 /\ working[move.at + 1] = move.item
                 /\ source[move.at + 1] = move.item
          [] move.name = "insert" ->
                 /\ move.at <= Len(working)
                 /\ target[move.at + 1] = move.item
                 /\ Make(move, working)[move.at + 1] = move.item
          [] OTHER ->
                 /\ move.from < Len(working)
                 /\ working[move.from + 1] = move.item
                 /\ move.from # move.to
                 /\ move.to < Len(working)

\* C28: the returned list holds the removals first, by descending source
\* index, then the insertions by ascending target index, then the moves,
\* and every operation is valid against the working list it is made on.
C28_IndexesAreValid ==
    called =>
        /\ InPhases(Names(moves.list))
        /\ \A i \in 1 .. Len(moves.list) : \A j \in i + 1 .. Len(moves.list) :
               /\ (moves.list[i].name = "remove" /\ moves.list[j].name = "remove")
                      => moves.list[i].at > moves.list[j].at
               /\ (moves.list[i].name = "insert" /\ moves.list[j].name = "insert")
                      => moves.list[i].at < moves.list[j].at
        /\ \A k \in 1 .. Len(moves.list) : IsValidAt(k)

C28_Witness ==
    /\ called
    /\ Names(moves.list) = <<"remove", "remove", "insert">>
    /\ moves.list[1].at = 2
    /\ moves.list[2].at = 0
    /\ moves.list[3].item \notin Range(source)

\* An integer key is the index of the child that has no key of its own.
IsPositional(keys) ==
    \A i \in 1 .. Len(keys) : ~IsStr(keys[i]) => keys[i] = i - 1

Operated(name) ==
    { moves.list[k].item :
          k \in { j \in 1 .. Len(moves.list) : moves.list[j].name = name } }

\* C29: for keys that are strings or positional indexes only a key of the
\* target that the source has not is inserted, only a key of the source
\* that the target has not is removed, and a key of both is neither.
C29_PersistingKeysAreKept ==
    (called /\ IsPositional(source) /\ IsPositional(target)) =>
        /\ Operated("insert") \subseteq Range(target) \ Range(source)
        /\ Operated("remove") \subseteq Range(source) \ Range(target)
        /\ Range(source) = Range(target) =>
               Operated("insert") \cup Operated("remove") = {}

\* The keys of `keys` that `others` has too, in their order in `keys`.
CommonIn(keys, others) == SelectSeq(keys, LAMBDA k : k \in Range(others))

\* C30: no Move is returned when the keys of both sequences are in the
\* same relative order in both, and a Move is returned only when the
\* sequence after the removals and insertions is not the target.
C30_NoMoveWhenInOrder ==
    called =>
        /\ CommonIn(source, target) = CommonIn(target, source) =>
               Operated("move") = {}
        /\ Operated("move") # {} => Intermediate # target

C30_Witness ==
    /\ called
    /\ Len(CommonIn(source, target)) = 2
    /\ CommonIn(source, target) = CommonIn(target, source)
    /\ Operated("remove") = Range(source) \ Range(target)
    /\ Operated("insert") = Range(target) \ Range(source)
    /\ Operated("remove") # {}
    /\ Operated("insert") # {}
    /\ Operated("move") = {}

(***************************************************************************)
(* The order of the patches of a batch.                                    *)
(***************************************************************************)
\* The place a patch has among the patches elementPatches and
\* componentPatches give for node id and its subtree.
Rank(patch, id) ==
    IF Subject(patch) # id THEN 3
    ELSE CASE patch.type = "update-node" -> 5
           [] patch.type = "set-text-content" -> 4
           [] patch.type = "remove-text-content" -> 2
           [] patch.type \in {"append-child", "remove-child", "replace-child",
                              "insert-child-node", "move-child-node",
                              "replace-child-node", "remove-child-node"} -> 3
           [] OTHER -> 1

\* The patches of the batch that are for node id or for a node below it.
Scope(nodes, patches, id) ==
    { p \in 1 .. Len(patches) :
          /\ patches[p].type # "init-root-component"
          /\ Subject(patches[p]) \in Reach(nodes, id) }

\* Node id has exactly one update-node patch, no patch of its scope comes
\* after it, and the patches of the scope come in the order of their ranks.
IsPostOrder(nodes, patches, id) ==
    /\ Cardinality(UpdateOf(patches, id)) = 1
    /\ \A p, q \in Scope(nodes, patches, id) :
           p < q => Rank(patches[p], id) <= Rank(patches[q], id)

\* C31: for every node that a batch updates in place there is exactly one
\* update-node patch in the batch, and it comes after every other patch for
\* the node and after every patch for a node below it; for an element the
\* property patches come first, then the patches for its child list and
\* its descendants, then set-text-content, then its update-node patch.
C31_UpdatesArePostOrder ==
    (Calculated /\ ~crashed) =>
        \A p \in 1 .. Len(Top.patches) :
            Top.patches[p].type # "init-root-component" =>
                IsPostOrder(heap, Top.patches, Subject(Top.patches[p]))

\* The element of a root is updated with a property patch, a patch for its
\* child list and a set-text-content patch, and the root after it.
C31_Witness ==
    /\ Calculated
    /\ ~crashed
    /\ IsPostOrder(heap, Top.patches, RootNode)
    /\ \E e \in Reach(heap, RootNode) \ {RootNode} :
          /\ IsElement(heap[e])
          /\ IsPostOrder(heap, Top.patches, e)
          /\ \E p, q, r \in Scope(heap, Top.patches, e) :
                /\ Rank(Top.patches[p], e) = 1
                /\ Subject(Top.patches[q]) = e
                /\ Rank(Top.patches[q], e) = 3
                /\ Rank(Top.patches[r], e) = 4
          /\ \A u \in UpdateOf(Top.patches, e) :
                \A v \in UpdateOf(Top.patches, RootNode) : u < v
(***************************************************************************)
(* A root whose commands may set its state to null: commands.setState      *)
(* hands its argument to the reducer as it is (part_006 3714-3739).        *)
(***************************************************************************)
\* The states the commands after the first one set.
LaterRootStates ==
    { AppState("none", NoLook, <<>>),
      AppState("row", NoLook, <<>>),
      AppState("section", NoLook, <<>>),
      AppState("section", NoLook, <<Item(KeyA, "Row")>>) }

\* Root.init, once: the root is not ready yet.
Mount ==
    /\ ready = "pending"
    /\ RootInit

\* commands.setState(null)
SetStateNull ==
    /\ Idle
    /\ ready = "resolved"
    /\ state # NullState
    /\ Begin(NullState)
    /\ UNCHANGED <<reentered, recVars, engine, tripVars, ready, utilVars>>

\* commands.setState(state) on a root that is ready.
SetStateLater ==
    /\ Idle
    /\ ready = "resolved"
    /\ \E nextState \in LaterRootStates : Begin(nextState)
    /\ UNCHANGED <<reentered, recVars, engine, tripVars, ready, utilVars>>

NextNullState ==
    \/ Mount
    \/ SetStateNull
    \/ SetStateLater
    \/ BeforeHook
    \/ ApplyPatch
    \/ AfterHook
    \/ Finish

SpecNullState == Init /\ [][NextNullState]_vars

\* C32: the init-root-component patch is the first patch of the first batch
\* of a root and of no other: no command sent to a root that is ready gives
\* another one, whatever state its reducer returns.
C32_InitRootOnce ==
    \A f \in 1 .. Len(stack) :
        \A p \in 1 .. Len(stack[f].patches) :
            stack[f].patches[p].type = "init-root-component" =>
                /\ p = 1
                /\ f = 1
                /\ ready = "pending"
(***************************************************************************)
(* The nodes a batch creates and the nodes it takes out of the tree.       *)
(***************************************************************************)
ShapePatches ==
    {"init-root-component", "append-child", "remove-child", "replace-child",
     "insert-child-node", "move-child-node", "replace-child-node",
     "remove-child-node"}

\* The nodes of the subtrees that the patches insert, append or put in the
\* place of another node, and that the tree did not hold before.
CreatedBy(nodes, frame) ==
    UNION { Reach(nodes, n) :
        n \in { frame.patches[p].child : p \in
                  { q \in 1 .. Len(frame.patches) :
                        frame.patches[q].type = "append-child" } }
              \cup { frame.patches[p].node : p \in
                  { q \in 1 .. Len(frame.patches) :
                        /\ frame.patches[q].type \in
                               {"replace-child", "replace-child-node",
                                "insert-child-node"}
                        /\ frame.patches[q].node \notin frame.before } } }

\* The nodes of the subtrees that the patches remove or replace.
RemovedBy(nodes, frame) ==
    UNION { Reach(nodes, n) :
        n \in { frame.patches[p].child : p \in
                  { q \in 1 .. Len(frame.patches) :
                        frame.patches[q].type \in
                            {"remove-child", "replace-child",
                             "replace-child-node"} } }
              \cup { frame.patches[p].node : p \in
                  { q \in 1 .. Len(frame.patches) :
                        frame.patches[q].type = "remove-child-node" } } }

\* C33: no property, text or update-node patch of a batch is for a node
\* that the batch creates by an insert, an append or a replace, or for a
\* node of a subtree that the batch removes or replaces.
C33_NoPatchForFreshOrGone ==
    (Calculated /\ ~crashed) =>
        \A p \in 1 .. Len(Top.patches) :
            Top.patches[p].type \notin ShapePatches =>
                Subject(Top.patches[p])
                    \notin CreatedBy(heap, Top) \cup RemovedBy(heap, Top)
(***************************************************************************)
(* A section whose rows carry numbers as keys.                             *)
(***************************************************************************)
\* The largest number used as an explicit key.
MaxNumericKey == 1

NumericItems ==
    { Item(k, "div") : k \in (0 .. MaxNumericKey) \cup {NoKey, KeyA} }

NumericStates ==
    { AppState("section", NoLook, rows) :
          rows \in UNION { { r \in [1 .. n -> NumericItems] : HasUniqueKeys(r) } :
                               n \in 0 .. MaxRows } }

\* Root.init with such a state.
MountNumeric ==
    /\ Idle
    /\ state = NullState
    /\ \E nextState \in NumericStates : Begin(nextState)
    /\ UNCHANGED <<reentered, recVars, engine, tripVars, ready, utilVars>>

\* commands.setState with such a state.
SetStateNumeric ==
    /\ Idle
    /\ state # NullState
    /\ \E nextState \in NumericStates : Begin(nextState)
    /\ UNCHANGED <<reentered, recVars, engine, tripVars, ready, utilVars>>

NextNumericKeys ==
    \/ MountNumeric
    \/ SetStateNumeric
    \/ BeforeHook
    \/ ApplyPatch
    \/ AfterHook
    \/ Finish

SpecNumericKeys == Init /\ [][NextNumericKeys]_vars

\* The keys elementChildrenPatches hands to the reconciler for a list of
\* descriptions: description.key || index.
SiblingKeys(descriptions) ==
    [i \in 1 .. Len(descriptions) |->
        KeyOrIndex(descriptions[i].key, i - 1)]

\* The descriptions of the rows the root renders for a state.
RowDescriptions(appState) == RendererRender("Root", appState).children

\* C34: when the explicit keys of the children of an element are pairwise
\* distinct, the keys handed to the reconciler (the explicit key, or the
\* index of a child without one) do not repeat, for the children the
\* element has and for the ones it is to have, so that the assertion of
\* debug mode does not fail the diff; numbers as keys, 0 among them, and
\* children without key may be mixed.
C34_DerivedKeysAreDuplicateFree ==
    (stack # <<>> /\ Top.steps = <<>> /\ Top.from # NullState) =>
        /\ HasUniqueKeys(RowDescriptions(Top.from)) =>
               IsDupFree(SiblingKeys(RowDescriptions(Top.from)))
        /\ HasUniqueKeys(RowDescriptions(Top.to)) =>
               IsDupFree(SiblingKeys(RowDescriptions(Top.to)))

\* The diff of such a command has thrown.
C34_AssertionFails ==
    /\ stack # <<>>
    /\ crashed
    /\ Top.steps = <<>>
    /\ HasUniqueKeys(RowDescriptions(Top.from))
    /\ HasUniqueKeys(RowDescriptions(Top.to))
    /\ ~IsDupFree(SiblingKeys(RowDescriptions(Top.to)))
(***************************************************************************)
(* The parent links of the virtual tree.                                   *)
(***************************************************************************)
\* The nodes that the patches of a batch have removed or replaced and that
\* the tree no longer holds.
TakenOut(nodes, frame) ==
    { n \in { frame.patches[p].child : p \in
                { q \in 1 .. Len(frame.patches) :
                      frame.patches[q].type \in
                          {"remove-child", "replace-child",
                           "replace-child-node"} } }
            \cup { frame.patches[p].node : p \in
                { q \in 1 .. Len(frame.patches) :
                      frame.patches[q].type = "remove-child-node" } } :
          n \notin Reach(nodes, RootNode) }

\* Every node the tree holds under an owner points back at that owner.
AllLinked(nodes) ==
    \A owner \in Reach(nodes, RootNode) :
        /\ nodes[owner].child # NoNode =>
               nodes[nodes[owner].child].parentNode = owner
        /\ \A i \in 1 .. Len(nodes[owner].children) :
               nodes[nodes[owner].children[i]].parentNode = owner

\* The same, but for the roots in the child list of an element: the
\* constructor of Root hands no parent to the one of Component, so that a
\* nested root has no parentNode until a patch inserts it.
AllLinkedButRoots(nodes) ==
    \A owner \in Reach(nodes, RootNode) :
        /\ nodes[owner].child # NoNode =>
               nodes[nodes[owner].child].parentNode = owner
        /\ \A i \in 1 .. Len(nodes[owner].children) :
               LET child == nodes[owner].children[i]
               IN  IF IsRoot(nodes[child])
                   THEN nodes[child].parentNode \in {NoNode, owner}
                   ELSE nodes[child].parentNode = owner

\* The tree has been built, or a batch has been applied, and no command
\* was sent while another was being applied.
Applied ==
    /\ ~crashed
    /\ ~reentered
    /\ state # NullState
    /\ stack = <<>> \/ Top.phase = "done"

Unlinked(nodes, frames) ==
    frames # <<>> =>
        \A n \in TakenOut(nodes, frames[Len(frames)]) :
            nodes[n].parentNode = NoNode

ChildRefs(nodes, element) ==
    [i \in 1 .. Len(nodes[element].children) |->
        Ref(nodes, nodes[element].children[i])]

\* C36: after every applied batch the child nodes of the DOM element of
\* every element of the tree are the refs of its virtual children, as many
\* and in the same order, also when a child is a component that renders a
\* placeholder comment only and when the batch has inserted, moved or
\* removed children.
C36_DomChildrenInOrder ==
    Applied =>
        \A element \in Reach(heap, RootNode) :
            IsElement(heap[element]) =>
                heap[element].ref.childNodes = ChildRefs(heap, element)
(***************************************************************************)
(* What the calculation of the patches leaves alone.                       *)
(***************************************************************************)
\* A command begins: its patches are calculated.
DiffIsCalculated == Len(stack') > Len(stack)

\* The nodes that exist keep every field, and the container its children.
TreeIsKept ==
    /\ \A id \in 1 .. Len(heap) : heap'[id] = heap[id]
    /\ containerNodes' = containerNodes

\* C37: while the patches of a command are calculated no node of the
\* virtual tree and no DOM node under the root is changed, those of the
\* nested roots included, and no lifecycle hook is called; nothing is
\* changed while the before-hooks of the batch run either.
C37_DiffMutatesNothing ==
    [][/\ DiffIsCalculated =>
              /\ TreeIsKept
              /\ stack'[Len(stack')].fired = <<>>
       /\ (stack # <<>> /\ Len(stack') = Len(stack) /\ Top.phase = "before")
              => TreeIsKept]_vars
(***************************************************************************)
(* The life of a root: Toolkit.render (part_006 4058-4065), Root.init      *)
(* (936-949), the entries of root.commands (1006-1016) and Root.destroy    *)
(* (1136-1146).                                                            *)
(***************************************************************************)
\* The calls of an entry of root.commands that are looked at.
MaxInvocations == 3

\* `if (this.dispatch)` in an entry of root.commands.
DispatchesAlways(boundDispatch) == TRUE

Dispatches(boundDispatch) == boundDispatch # NoDispatch

\* originator.track(root) and originator.stopTracking(root)
Track(tracked, root) == tracked \cup {root}

StopTracking(tracked, root) == tracked \ {root}

treeAtRest ==
    <<state, heap, containerNodes, stack, reentered, crashed>>

otherThanLife ==
    <<recVars, engine, tripVars, templateVars, throttleVars, resolverVars,
      loaderVars, pluginVars>>

\* An entry of root.commands is called with a state: the command is made
\* and dispatched when root.dispatch is set, and nothing is done otherwise.
Invoked(nextState) ==
    /\ invocations' = invocations + 1
    /\ IF Dispatches(dispatch)
       THEN Begin(nextState) /\ UNCHANGED reentered
       ELSE UNCHANGED treeAtRest

\* Toolkit.render: the root is tracked and mounted; Root.init runs up to
\* `await this.plugins.installAll()`.
RenderRoot ==
    /\ initPc = "created"
    /\ roots' = Track(roots, RootNode)
    /\ initPc' = "installing"
    /\ UNCHANGED <<treeAtRest, ready, dispatch, invocations, otherThanLife>>

\* Root.init goes on: this.originator.track(this), which throws when the
\* root has been destroyed and has no originator, then
\* `await this.getInitialState(...)`.
InitTracks ==
    /\ initPc = "installing"
    /\ IF dispatch = NoDispatch
       THEN /\ initPc' = "failed"
            /\ UNCHANGED roots
       ELSE /\ initPc' = "awaiting"
            /\ roots' = Track(roots, RootNode)
    /\ UNCHANGED <<treeAtRest, ready, dispatch, invocations, otherThanLife>>

\* Root.init goes on: this.commands.init(state).  The root is marked as
\* ready when the call returns, which it does at once when nothing is
\* dispatched.
InitCommand ==
    /\ initPc = "awaiting"
    /\ Idle
    /\ initPc' = "done"
    /\ \E nextState \in LaterRootStates : Invoked(nextState)
    /\ ready' = IF Dispatches(dispatch) THEN ready ELSE "resolved"
    /\ UNCHANGED <<dispatch, roots, otherThanLife>>

\* The application calls root.commands.setState(state), on a root that is
\* initialised or destroyed.
Invoke ==
    /\ Idle
    /\ ~reentered
    /\ invocations < MaxInvocations
    /\ initPc = "done" \/ dispatch = NoDispatch
    /\ state # NullState \/ dispatch = NoDispatch
    /\ \E nextState \in LaterRootStates : Invoked(nextState)
    /\ UNCHANGED <<ready, dispatch, roots, initPc, otherThanLife>>

\* Root.destroy() on the root that Toolkit.render has made, while no
\* command is being applied.
Destroy ==
    /\ Idle
    /\ initPc # "created"
    /\ dispatch # NoDispatch
    /\ roots' = StopTracking(roots, RootNode)
    /\ dispatch' = NoDispatch
    /\ UNCHANGED <<treeAtRest, ready, initPc, invocations, otherThanLife>>

NextDestroy ==
    \/ RenderRoot
    \/ InitTracks
    \/ InitCommand
    \/ Invoke
    \/ Destroy
    \/ BeforeHook
    \/ ApplyPatch
    \/ AfterHook
    \/ Finish

SpecDestroy == Init /\ [][NextDestroy]_vars

\* C38: once a root is destroyed its commands are dead: a call of an entry
\* of root.commands starts no diff, applies no patch, calls no hook and
\* throws nothing, the root stays destroyed, and its originator does not
\* track it.
C38_DestroyedIsTerminal ==
    [][dispatch = NoDispatch =>
           /\ UNCHANGED treeAtRest
           /\ dispatch' = NoDispatch
           /\ RootNode \notin roots
           /\ RootNode \notin roots']_vars

\* A root that had rendered a state was destroyed, and an entry of its
\* commands was called after that.
C38_Witness ==
    /\ dispatch = NoDispatch
    /\ state # NullState
    /\ invocations = MaxInvocations
    /\ initPc = "done"
    /\ stack = <<>>
    /\ RootNode \notin roots
(***************************************************************************)
(* Components within components: the section of the mounted root holds     *)
(* Groups, folded or not, and plain elements.  An unfolded Group holds a   *)
(* Board, a root nested in the tree, which is initialised by its custom    *)
(* element (ComponentElement 1156-1207) once the command that made it has  *)
(* returned.                                                               *)
(***************************************************************************)
NestedItems ==
    { Item(KeyA, "Group"), Item(KeyA, "Fold"), Item(KeyB, "Group"),
      Item(NoKey, "span") }

NestedStates ==
    { AppState("section", NoLook, rows) :
          rows \in UNION { { list \in [1 .. n -> NestedItems] :
                                 HasUniqueKeys(list) } : n \in 0 .. MaxRows } }

\* Root.init of the mounted root, for a section of groups.
NestedInit ==
    /\ Idle
    /\ state = NullState
    /\ \E nextState \in NestedStates : Begin(nextState)
    /\ UNCHANGED <<reentered, recVars, engine, tripVars, ready, utilVars>>

\* commands.setState(state) on the mounted root.
NestedSetState ==
    /\ Idle
    /\ state # NullState
    /\ \E nextState \in NestedStates : Begin(nextState)
    /\ UNCHANGED <<reentered, recVars, engine, tripVars, ready, utilVars>>

NextNested ==
    \/ NestedInit
    \/ SubRootInit
    \/ NestedSetState
    \/ BeforeHook
    \/ ApplyPatch
    \/ AfterHook
    \/ Finish

SpecNested == Init /\ [][NextNested]_vars

\* Lifecycle.beforeUpdate and afterUpdate of one batch: the calls made so
\* far, in the order they were made.
Notified(frame) ==
    ConcatAll([s \in 1 .. Len(frame.steps) |-> frame.steps[s].calls])

\* The nodes below a node of the tree.
Descendants(nodes, id) == Reach(nodes, id) \ {id}

\* The roots nested in a tree, with what they hold.
NestedRoots(nodes) ==
    { id \in 1 .. Len(nodes) : IsRoot(nodes[id]) /\ id # RootNode }

UnderNestedRoots(nodes) ==
    UNION { Reach(nodes, root) : root \in NestedRoots(nodes) }

\* Whether the calls keep the order of a hook between every component and
\* the components below it.
InOrder(nodes, calls) ==
    \A i, j \in 1 .. Len(calls) :
        (/\ calls[i].hook = calls[j].hook
         /\ calls[j].node \in Descendants(nodes, calls[i].node))
            => CASE calls[i].hook \in {"onCreated", "onDestroyed"} -> i < j
                 [] calls[i].hook \in {"onAttached", "onDetached"} -> j < i
                 [] OTHER -> TRUE

\* C39: in the notifications of a batch onCreated and onDestroyed reach a
\* component before the components below it, onAttached and onDetached
\* reach it after the components below it, and none of the four reaches a
\* root nested in the tree or a node that such a root holds.
C39_TraversalOrder ==
    \A f \in 1 .. Len(stack) :
        /\ InOrder(heap, Notified(stack[f]))
        /\ \A c \in 1 .. Len(Notified(stack[f])) :
               Notified(stack[f])[c].hook
                       \in {"onCreated", "onAttached", "onDestroyed",
                            "onDetached"}
                   => Notified(stack[f])[c].node \notin UnderNestedRoots(heap)

\* Whether the calls hold the hook for a component and for a component
\* below it.
Nests(nodes, calls, hook) ==
    \E i, j \in 1 .. Len(calls) :
        /\ calls[i].hook = hook
        /\ calls[j].hook = hook
        /\ calls[j].node \in Descendants(nodes, calls[i].node)

\* A batch has been applied that took a Group out with the Row and the
\* initialised Board below it and put another Group with its Row in: each
\* of the four hooks was called for a component and for one below it.
C39_Witness ==
    /\ Len(stack) = 1
    /\ ~crashed
    /\ Top.phase = "done"
    /\ \A hook \in {"onCreated", "onAttached", "onDestroyed", "onDetached"} :
           Nests(heap, Notified(Top), hook)
    /\ \E c \in 1 .. Len(Notified(Top)) :
           /\ Notified(Top)[c].hook = "onDestroyed"
           /\ \E root \in NestedRoots(heap) :
                  /\ root \in Descendants(heap, Notified(Top)[c].node)
                  /\ heap[root].child # NoNode
                  /\ IsComponent(heap[heap[root].child])

(***************************************************************************)
(* Calls of Loader.resolve, Loader.require and Loader.preload for one id   *)
(* while others are in flight (part_006 139-170, 198-293).  A promise is   *)
(* whether it is settled and the value it is settled with.  The script of  *)
(* the module arrives and sets module.exports, so that the throw of        *)
(* 276-278 is not met; the class it exports is told apart by the load      *)
(* that ran the script.                                                    *)
(***************************************************************************)
MaxLoaderCalls == 3    \* calls of the loader

\* The id every call is made with; its script declares no symbol.
ModuleId == "c"

Promise(settled, value) == [settled |-> settled, value |-> value]

\* new Loader() with exportPromises beside it, and the script loads that
\* loadInBrowser has started, by id.
NewLoads ==
    [ready |-> ResolvedPromise, context |-> <<>>, registry |-> <<>>,
     loadPromises |-> <<>>, resolved |-> {ResolvedPromise}, promises |-> 1,
     exportPromises |-> <<>>, loads |-> <<>>]

\* A variant that takes no module for pending.
IsPendingNever(module) == FALSE

\* `if (module.isPending)` in Loader.resolve
IsPending(module) == module.isPending

\* Loader.load up to `await exportPromise`: the script load is started and
\* its promise is kept in exportPromises.
load(L, id) ==
    [LoadStarted(L, id) EXCEPT
        !.exportPromises = MapSet(@, id, Promise(FALSE, NoExports)),
        !.loads = MapSet(@, id, (IF Has(@, id) THEN @[id] ELSE 0) + 1)]

\* Loader.resolve up to its return or its first await: what the call met,
\* and the value it returns at once.
resolve(L, id) ==
    IF Has(L.registry, id) /\ L.registry[id].exports # NoExports
    THEN [loader |-> L, met |-> "exports", value |-> L.registry[id].exports]
    ELSE IF Has(L.registry, id) /\ IsPending(L.registry[id])
    THEN [loader |-> L, met |-> "pending", value |-> NoExports]
    ELSE [loader |-> load(L, id), met |-> "nothing", value |-> NoExports]

\* Loader.require: the module is marked as required, or registered so,
\* and is a dependency of the module whose script is being loaded.
require(L, id) ==
    resolve(registerDependencyTo(
                IF Has(L.registry, id)
                THEN [L EXCEPT !.registry[id].isRequired = TRUE]
                ELSE registerModule(L, id, TRUE),
                id),
            id)

\* A call of the loader: the method, where it stands, what its call of
\* resolve met, the promise it awaits and the one its `done` resolves in
\* waitForLoader, and the value it has got.
LoaderCall(method, pc, met, awaits, done, value) ==
    [method |-> method, pc |-> pc, met |-> met, awaits |-> awaits,
     done |-> done, value |-> value]

\* Where a call stands once resolve has come to what it met: it awaits the
\* script it has started or the export promise of another call, or it
\* has the exports, with which resolve and require return and
\* loadWithDependencies goes on.
Stands(method, met) ==
    CASE met = "nothing" -> "loading"
      [] met = "pending" -> "joined"
      [] OTHER -> IF method = "preload" THEN "resolved" ELSE "returned"

otherThanLoads ==
    <<recVars, engine, treeVars, tripVars, lifeVars, templateVars, throttleVars,
      resolverVars, pluginVars, scripts>>

InitLoads ==
    /\ loader = NewLoads
    /\ preloads = <<>>
    /\ scripts \in ScriptFiles
    /\ RootIdle
    /\ TemplateIdle
    /\ ThrottleIdle
    /\ ResolverIdle
    /\ PluginsIdle

Made(method, out) ==
    /\ loader' = out.loader
    /\ preloads' = Append(preloads,
           LoaderCall(method, Stands(method, out.met), out.met, NoPromise,
                      NoPromise, out.value))

\* loader.resolve(id)
Resolves ==
    /\ Len(preloads) < MaxLoaderCalls
    /\ Made("resolve", resolve(loader, ModuleId))
    /\ UNCHANGED otherThanLoads

\* loader.require(id)
Requires ==
    /\ Len(preloads) < MaxLoaderCalls
    /\ Made("require", require(loader, ModuleId))
    /\ UNCHANGED otherThanLoads

\* loader.preload(id) up to its first await: of the load promise of the
\* id, or of loader.ready in waitForLoader.
Preloads ==
    /\ Len(preloads) < MaxLoaderCalls
    /\ IF Has(loader.loadPromises, ModuleId)
       THEN /\ preloads' = Append(preloads,
                   LoaderCall("preload", "awaiting", "promise", NoPromise,
                              NoPromise, NoExports))
            /\ UNCHANGED loader
       ELSE /\ preloads' = Append(preloads,
                   LoaderCall("preload", "waiting", "", loader.ready,
                              loader.promises, NoExports))
            /\ loader' = [loader EXCEPT !.ready = loader.promises,
                                        !.promises = @ + 1]
    /\ UNCHANGED otherThanLoads

\* loader.ready is resolved: the call of preload returns the exports of a
\* module that is loaded, or calls loadWithDependencies, which calls
\* resolve, and keeps the promise in loadPromises.
LoaderReleases ==
    /\ \E i \in 1 .. Len(preloads) :
           /\ preloads[i].pc = "waiting"
           /\ preloads[i].awaits \in loader.resolved
           /\ IF /\ Has(loader.registry, ModuleId)
                 /\ loader.registry[ModuleId].isLoaded
              THEN /\ preloads' =
                          [preloads EXCEPT
                              ![i].pc = "returned",
                              ![i].met = "loaded",
                              ![i].value = loader.registry[ModuleId].exports]
                   /\ UNCHANGED loader
              ELSE LET Called(out) ==
                           /\ loader' =
                                  [out.loader EXCEPT !.loadPromises =
                                      MapSet(@, ModuleId,
                                             Promise(FALSE, NoExports))]
                           /\ preloads' =
                                  [preloads EXCEPT
                                      ![i].pc = Stands("preload", out.met),
                                      ![i].met = out.met,
                                      ![i].value = out.value]
                   IN  Called(resolve(loader, ModuleId))
    /\ UNCHANGED otherThanLoads

\* The script has run and its load event is handled: the export promise
\* is resolved with what the script has left in module.exports.
ScriptRuns ==
    /\ Has(loader.exportPromises, ModuleId)
    /\ ~loader.exportPromises[ModuleId].settled
    /\ loader' =
           [Declared(loader, scripts[ModuleId].symbols, 0) EXCEPT
               !.exportPromises[ModuleId] =
                   Promise(TRUE, [scripts[ModuleId].exports EXCEPT
                                     !.serial = loader.loads[ModuleId]])]
    /\ UNCHANGED <<preloads, otherThanLoads>>

\* Loader.load goes on after `await exportPromise`: the module is no
\* longer pending and has its exports, Context.restore pops it.
LoadGoesOn ==
    /\ \E i \in 1 .. Len(preloads) :
           /\ preloads[i].pc = "loading"
           /\ loader.exportPromises[ModuleId].settled
           /\ loader' =
                  [loader EXCEPT
                      !.registry[ModuleId].isPending = FALSE,
                      !.registry[ModuleId].exports =
                          loader.exportPromises[ModuleId].value,
                      !.context = SubSeq(@, 1, Len(@) - 1)]
           /\ preloads' =
                  [preloads EXCEPT
                      ![i].pc = Stands(preloads[i].method, "exports"),
                      ![i].value = loader.exportPromises[ModuleId].value]
    /\ UNCHANGED otherThanLoads

\* A call that was handed the export promise gets its value.  The call of
\* load awaited the promise before, so that it has gone on by then.
ExportsArrive ==
    /\ \E i \in 1 .. Len(preloads) :
           /\ preloads[i].pc = "joined"
           /\ loader.exportPromises[ModuleId].settled
           /\ ~loader.registry[ModuleId].isPending
           /\ preloads' =
                  [preloads EXCEPT
                      ![i].pc = Stands(preloads[i].method, "exports"),
                      ![i].value = loader.exportPromises[ModuleId].value]
    /\ UNCHANGED <<loader, otherThanLoads>>

\* loadWithDependencies goes on with the exports: every dependency of the
\* module has exports, the module is loaded, the load promise is
\* fulfilled, and preload calls done() and returns.
DependenciesLoaded ==
    /\ \E i \in 1 .. Len(preloads) :
           /\ preloads[i].pc = "resolved"
           /\ loader' =
                  Released([loader EXCEPT
                               !.registry[ModuleId].isLoaded = TRUE,
                               !.loadPromises[ModuleId] =
                                   Promise(TRUE, preloads[i].value)],
                           preloads[i].done)
           /\ preloads' = [preloads EXCEPT ![i].pc = "returned"]
    /\ UNCHANGED otherThanLoads

\* The load promise that a call of preload returned is fulfilled.
LoadArrives ==
    /\ \E i \in 1 .. Len(preloads) :
           /\ preloads[i].pc = "awaiting"
           /\ loader.loadPromises[ModuleId].settled
           /\ preloads' =
                  [preloads EXCEPT
                      ![i].pc = "returned",
                      ![i].value = loader.loadPromises[ModuleId].value]
    /\ UNCHANGED <<loader, otherThanLoads>>

NextLoads ==
    \/ Resolves
    \/ Requires
    \/ Preloads
    \/ LoaderReleases
    \/ ScriptRuns
    \/ LoadGoesOn
    \/ ExportsArrive
    \/ DependenciesLoaded
    \/ LoadArrives

SpecLoads == InitLoads /\ [][NextLoads]_vars

====
